---- MODULE Spec2Model ----
(***************************************************************************)
(* Model of the local indexing service: the index store (src/database.py), *)
(* the indexer (src/indexer.py), the file classification helpers           *)
(* (src/file_utils.py), the search engine (src/search.py) and the server   *)
(* tools with their periodic scanner (main.py).                            *)
(*                                                                         *)
(* Paths are sequences of components and a component is a sequence of      *)
(* one-character strings, so that str(), Path.resolve() and                *)
(* str.startswith() are computed on characters as the code computes them.  *)
(***************************************************************************)
EXTENDS Integers, Sequences, FiniteSets, TLC

----------------------------------------------------------------------------
(* Bounds of the model *)

\* largest modification time a file can carry
MaxMtime == 2
\* largest file size, in model units (one unit above the size limit)
MaxSize == 2
\* number of calls of the store and the indexer explored in one behaviour
\* (the ticks of time.time()); the environment acts between the calls
MaxClock == 3

\* max_file_size_mb of the configuration, in model units
max_file_size_mb == 1

None == "None"

----------------------------------------------------------------------------
(* Path names *)

DOT == <<".">>
DOTDOT == <<".", ".">>

\* the temporary directory, the source directory and a sibling directory
\* whose name begins with the name of the source directory
R == <<"r">>
S == <<"s">>
S2 == <<"s", "2">>
IDX == <<"i">>
ETC == <<"e">>

A_TXT == <<"a", ".", "t">>
B_MD == <<"b", ".", "m">>
X_TXT == <<"x", ".", "t">>
O_TXT == <<"o", ".", "t">>
PASSWD == <<"p">>

\* extensions as the suffix of the last component
EXT_TXT == <<".", "t">>
EXT_MD == <<".", "m">>

source_path == <<R, S>>
index_path == <<R, IDX>>

FileA == <<R, S, A_TXT>>
FileB == <<R, S, B_MD>>
FileX == <<R, S2, X_TXT>>

\* the regular files of the model; the files under the source directory
\* change, the file in the sibling directory is always there
Files == {FileA, FileB, FileX}
SourceFiles == {FileA, FileB}
\* order in which os.walk lists the files
WalkOrder == <<FileA, FileB>>

Dirs == {<<>>, <<R>>, <<R, S>>, <<R, S2>>, <<R, IDX>>}

----------------------------------------------------------------------------
(* Strings and paths *)

RECURSIVE JoinFrom(_, _)
JoinFrom(comps, i) ==
    IF i > Len(comps) THEN <<>>
    ELSE <<"/">> \o comps[i] \o JoinFrom(comps, i + 1)

\* str(path) of an absolute path
Str(path) == IF path = <<>> THEN <<"/">> ELSE JoinFrom(path, 1)

\* str.startswith
StartsWith(s, prefix) ==
    /\ Len(prefix) <= Len(s)
    /\ SubSeq(s, 1, Len(prefix)) = prefix

\* Path.resolve() of an absolute path without symbolic links
RECURSIVE ResolveFrom(_, _, _)
ResolveFrom(comps, i, acc) ==
    IF i > Len(comps) THEN acc
    ELSE IF comps[i] = DOT THEN ResolveFrom(comps, i + 1, acc)
    ELSE IF comps[i] = DOTDOT
         THEN ResolveFrom(comps, i + 1,
                          IF acc = <<>> THEN acc ELSE SubSeq(acc, 1, Len(acc) - 1))
    ELSE ResolveFrom(comps, i + 1, Append(acc, comps[i]))

resolve(path) == ResolveFrom(path, 1, <<>>)

\* directory containment: dir is path or an ancestor of path
IsUnder(path, dir) ==
    /\ Len(dir) <= Len(path)
    /\ SubSeq(path, 1, Len(dir)) = dir

RECURSIVE LastDot(_, _)
LastDot(name, i) ==
    IF i = 0 THEN 0
    ELSE IF name[i] = "." THEN i
    ELSE LastDot(name, i - 1)

\* Path.suffix.lower(): the last component from its last dot on
suffix(path) ==
    IF path = <<>> THEN <<>>
    ELSE LET name == path[Len(path)]
             d == LastDot(name, Len(name))
         IN IF d <= 1 THEN <<>> ELSE SubSeq(name, d, Len(name))

\* a specific_file argument: a relative or absolute path string, or None
Input(abs, comps) == [none |-> FALSE, abs |-> abs, comps |-> comps]
NoneInput == [none |-> TRUE, abs |-> FALSE, comps |-> <<>>]

\* truth value of an Optional[str]: None and "" are false
Truthy(specific_file) ==
    /\ ~specific_file.none
    /\ ~(specific_file.abs = FALSE /\ specific_file.comps = <<>>)

\* an error message: a text followed by a path or by the caller's input
Msg(text, arg) == [text |-> text, arg |-> arg]

\* a relative path, an absolute path with a .. segment that stays inside,
\* a path into the sibling directory, a traversal out of the tree and an
\* absolute path outside
SpecificInputs ==
    { Input(FALSE, <<A_TXT>>),
      Input(TRUE, <<R, S, DOTDOT, S, B_MD>>),
      Input(FALSE, <<DOTDOT, S2, X_TXT>>),
      Input(FALSE, <<DOTDOT, DOTDOT, ETC, PASSWD>>),
      Input(TRUE, <<R, O_TXT>>) }

\* FileIndexer._validate_file_path: the resolved path, or the ValueError
_validate_file_path(filepath) ==
    LET path == IF filepath.abs THEN filepath.comps
                ELSE source_path \o filepath.comps
        resolved_path == resolve(path)
        source_resolved == resolve(source_path)
    IN IF ~StartsWith(Str(resolved_path), Str(source_resolved))
       THEN [raised |-> TRUE, path |-> resolved_path,
             error |-> Msg("Path outside source directory: ", filepath)]
       ELSE [raised |-> FALSE, path |-> resolved_path,
             error |-> Msg("", NoneInput)]

----------------------------------------------------------------------------
(* Configuration (ServerConfig) *)

EXT_PY == <<".", "p">>

included_extensions == {EXT_TXT, EXT_MD}
excluded_extensions == {}

----------------------------------------------------------------------------
(* State *)

VARIABLES
    fs,             \* the files on disk: Files -> a file record or NoFile
    dbfile,         \* state of the main database file
    journal,        \* which of the -wal and -shm files are on disk
    documents,      \* rows of the documents table, per path, in insertion order
    file_metadata,  \* rows of the file_metadata table
    now,            \* time.time(), one tick per call
    last,           \* the last call made and what it returned
    procs,          \* the refreshes in progress, when they run step by step
    server,         \* the globals of main.py, its tasks and what its last call returned
    searched,       \* the call of SearchEngine.search under study and what it returned
    txn,            \* the connection of the ingest transaction in progress
    conns           \* the scope that holds a connection, and the open connections

vars ==
    <<fs, dbfile, journal, documents, file_metadata, now, last, procs, server,
      searched, txn, conns>>

NoFile == [size |-> 0, mtime |-> 0, data |-> None]

\* what a file holds, as far as classification, decoding and reading see it:
\*   text     decodes as UTF-8 from the first to the last byte
\*   badtail  decodes as UTF-8 in its first 8 KiB and has an invalid byte later
\*   binary   has a null byte or a binary signature in its first 8 KiB
Data == {"text", "badtail", "binary"}

\* FileA takes every time and content at a size within the limit, and the
\* largest size, which is above the limit (then as text, at the first time);
\* FileB is a small text file that is created and deleted
FileStates(f) ==
    IF f = FileA
    THEN [size : 1..max_file_size_mb, mtime : 1..MaxMtime, data : Data]
         \cup [size : {MaxSize}, mtime : {1},
                data : {"text"}]
    ELSE [size : {1}, mtime : {1}, data : {"text"}]

\* states of the main database file
\*   ok          a database with the schema that passes the integrity check
\*   absent      no file
\*   empty       a file of zero bytes, as sqlite3.connect creates it
\*   small       fewer than MIN_SQLITE_FILE_SIZE bytes that are no database
\*   badheader   large enough, without the SQLite header
\*   malformed   the header and garbage behind it: SELECT 1 runs, statements
\*               on the tables and the integrity check fail
DbStates == {"ok", "absent", "empty", "small", "badheader", "malformed"}

NoDocuments == [p \in Files |-> <<>>]

----------------------------------------------------------------------------
(* src/file_utils.py *)

text_extensions == {EXT_TXT, EXT_MD, EXT_PY}

has_text_extension(filepath) == suffix(filepath) \in text_extensions

\* whether open(filepath) succeeds: a regular file that is on disk
CanOpen(disk, filepath) == filepath \in Files /\ disk[filepath] # NoFile

_is_text_content(data) == data # "binary"

\* is_text_file with check_content = True; an OSError counts as not text
is_text_file(disk, filepath) ==
    IF ~has_text_extension(filepath) THEN FALSE
    ELSE IF ~CanOpen(disk, filepath) THEN FALSE
    ELSE _is_text_content(disk[filepath].data)

\* detect_encoding: (encoding, error)
detect_encoding(disk, filepath) ==
    IF ~CanOpen(disk, filepath)
    THEN [encoding |-> None, error |-> "Cannot read file for encoding detection"]
    ELSE IF disk[filepath].data \in {"text", "badtail"}
         THEN [encoding |-> "utf-8", error |-> None]
         ELSE [encoding |-> "latin-1", error |-> None]

\* read_text_file with an explicit encoding: (content, error)
read_text_file(disk, filepath, encoding) ==
    IF ~CanOpen(disk, filepath)
    THEN [content |-> None, error |-> "Cannot read file"]
    ELSE IF encoding = "utf-8" /\ disk[filepath].data # "text"
         THEN [content |-> None, error |-> "Failed to read file"]
         ELSE [content |-> disk[filepath].data, error |-> None]

\* get_file_stats: (size, mtime); the caller has checked that the file is there
get_file_stats(disk, filepath) ==
    [size |-> disk[filepath].size, mtime |-> disk[filepath].mtime]

is_within_size_limit(disk, filepath, max_size) ==
    IF ~CanOpen(disk, filepath) THEN FALSE
    ELSE disk[filepath].size <= max_size

\* Path.exists()
exists(disk, filepath) == CanOpen(disk, filepath) \/ filepath \in Dirs

----------------------------------------------------------------------------
(* src/database.py *)

\* sqlite3.connect creates the main file when there is none
Connect(db) == IF db = "absent" THEN "empty" ELSE db

\* whether a statement on documents or file_metadata runs
TablesUsable(db) == db = "ok"

\* an exception of the sqlite3 module: its class and its message
StoreError(type, text) == [type |-> type, text |-> text]
NoError == StoreError(None, None)

\* the classes of the sqlite3 exceptions and their base classes
BaseOf(type) ==
    CASE type = "OperationalError" -> "DatabaseError"
      [] type = "IntegrityError" -> "DatabaseError"
      [] type = "DatabaseError" -> "Error"
      [] type = "InterfaceError" -> "Error"
      [] type = "Error" -> "Exception"
      [] type = "IndexCorruptionError" -> "IndexingError"
      [] type = "IndexingError" -> "Exception"
      [] type = "TypeError" -> "Exception"
      [] type = "Exception" -> "BaseException"
      [] type = "KeyboardInterrupt" -> "BaseException"
      [] OTHER -> None

\* isinstance, as an except clause tests it
RECURSIVE IsInstance(_, _)
IsInstance(type, class) ==
    IF type = None THEN FALSE
    ELSE IF type = class THEN TRUE
    ELSE IsInstance(BaseOf(type), class)

\* the messages of the store errors of the model
ErrorTexts ==
    {"file is not a database", "database disk image is malformed",
     "no such table: file_metadata", "Error binding parameter 0"}

\* str.lower() on the messages
Lower(text) ==
    CASE text = "Error binding parameter 0" -> "error binding parameter 0"
      [] OTHER -> text

\* the in operator of Python on the lowered messages and the two texts that
\* get_connection looks for
Contains(text, needle) ==
    needle \in {"file is not a database", "database disk image is malformed"}
        /\ text = needle

\* what sqlite3 raises for a statement on documents or file_metadata, by the
\* state of the database file
sqlite_error(db) ==
    IF Connect(db) = "ok" THEN NoError
    ELSE IF Connect(db) = "empty"
    THEN StoreError("OperationalError", "no such table: file_metadata")
    ELSE StoreError("DatabaseError", "file is not a database")

\* the exception that leaves the scope of get_connection
Raised(type, text, cause) == [type |-> type, text |-> text, cause |-> cause]
NoRaise == Raised(None, None, NoError)

\* a get_connection that translates the operational errors only
get_connection_operational(e) ==
    IF e = NoError THEN NoRaise
    ELSE IF IsInstance(e.type, "OperationalError")
    THEN IF Contains(Lower(e.text), "file is not a database")
         THEN Raised("IndexCorruptionError", "Database error: " \o e.text, e)
         ELSE IF Contains(Lower(e.text), "database disk image is malformed")
         THEN Raised("IndexCorruptionError", "Database error: " \o e.text, e)
         ELSE Raised("IndexCorruptionError",
                     "Database operation error: " \o e.text, e)
    ELSE Raised(e.type, e.text, e)

\* Database.get_connection: the except clauses around the scope
get_connection(e) ==
    IF e = NoError THEN NoRaise
    ELSE IF IsInstance(e.type, "OperationalError")
    THEN IF Contains(Lower(e.text), "file is not a database")
         THEN Raised("IndexCorruptionError", "Database error: " \o e.text, e)
         ELSE IF Contains(Lower(e.text), "database disk image is malformed")
         THEN Raised("IndexCorruptionError", "Database error: " \o e.text, e)
         ELSE Raised("IndexCorruptionError",
                     "Database operation error: " \o e.text, e)
    ELSE IF IsInstance(e.type, "DatabaseError")
    THEN Raised("IndexCorruptionError", "Database error: " \o e.text, e)
    ELSE Raised("IndexCorruptionError",
                "Unexpected database error: " \o e.text, e)

\* str(e) of the exception that get_connection raises when a statement on
\* the tables fails inside its scope
get_connection_error(db) ==
    Msg(get_connection(sqlite_error(db)).text, NoneInput)

\* the three places that call sqlite3.connect
Scopes == {"get_connection", "_validate_existing_database", "_create_schema"}

\* the operations that open a connection, each through one of the scopes:
\* the with-blocks of the indexer, of the search engine, of the statistics
\* tool and of the integrity check, and the two methods of the store that
\* connect by themselves
Operations ==
    {"get_changed_files", "index_file", "_save_file_error",
     "remove_deleted_files", "refresh_index", "search", "get_document_count",
     "search_by_path", "get_index_stats", "check_integrity",
     "_validate_existing_database", "_create_schema"}

ScopeOf(op) == IF op \in Scopes THEN op ELSE "get_connection"

\* the operations that return from inside the scope
ReturnsInside == {"check_integrity", "get_document_count",
                  "_validate_existing_database"}

\* what can be raised while the connection is held: errors of sqlite3, an
\* exception of the code of the block, an interrupt
ScopeExceptions ==
    {"OperationalError", "DatabaseError", "TypeError", "KeyboardInterrupt"}

\* how the code that holds the connection ends: it runs to its end, it
\* returns, or it raises
BodyExits(op) ==
    {"end"} \cup (IF op \in ReturnsInside THEN {"return"} ELSE {})
            \cup ScopeExceptions

\* a scope: its operation, where it stands, its local variable conn (set
\* or None), the exception on its way, how it ended, and the number of
\* sqlite3 connections that are open
NoScope ==
    [op |-> None, pc |-> "idle", conn |-> FALSE, exc |-> None,
     ended |-> None, open |-> 0]

\* the except clauses of the scope: the exception that goes on after them
scope_except(scope, exc) ==
    CASE scope = "get_connection" ->
            IF IsInstance(exc, "Exception") THEN "IndexCorruptionError"
            ELSE exc
      [] scope = "_validate_existing_database" ->
            IF IsInstance(exc, "Exception") THEN None ELSE exc
      [] OTHER ->
            IF IsInstance(exc, "Error") THEN "IndexCorruptionError" ELSE exc

\* a clause that closes the connection only when nothing was raised
scope_finally_else(c) ==
    [c EXCEPT !.pc = "idle",
              !.open = IF c.conn /\ c.exc = None THEN @ - 1 ELSE @,
              !.ended = IF c.exc = None THEN "returned" ELSE "raised"]

\* the finally clause: if conn: conn.close()
scope_finally(c) ==
    [c EXCEPT !.pc = "idle",
              !.open = IF c.conn THEN @ - 1 ELSE @,
              !.ended = IF c.exc = None THEN "returned" ELSE "raised"]

\* Database._validate_existing_database
_validate_existing_database(db) ==
    IF db \in {"empty", "small"} THEN FALSE
    ELSE IF db = "badheader" THEN FALSE
    ELSE TRUE

\* the files and rows of the store on disk; found is what was left of the
\* previous store when the new database file was created
Disk(db, jr, docs, meta) ==
    [dbfile |-> db, journal |-> jr, documents |-> docs, file_metadata |-> meta,
     found |-> {}]

\* the files of the store that are on disk
FilesOf(d) == d.journal \cup (IF d.dbfile = "absent" THEN {} ELSE {"main"})

\* a removal that unlinks the main database file only
_remove_database_files_main(d) ==
    [d EXCEPT !.dbfile = "absent", !.documents = NoDocuments,
              !.file_metadata = {}]

\* Database._remove_database_files
_remove_database_files(d) ==
    [d EXCEPT !.dbfile = "absent", !.journal = {}, !.documents = NoDocuments,
              !.file_metadata = {}]

\* Database._create_schema: an existing file is removed, then the file is
\* created and the CREATE ... IF NOT EXISTS statements run in WAL mode; the
\* close of the connection leaves no -wal and no -shm file
_create_schema(d) ==
    LET d1 == IF d.dbfile # "absent" THEN _remove_database_files(d) ELSE d
    IN [d1 EXCEPT !.dbfile = "ok", !.journal = {}, !.found = FilesOf(d1)]

\* Database._ensure_schema, the body of Database.__init__
_ensure_schema(d) ==
    LET d1 == IF d.dbfile # "absent" /\ ~_validate_existing_database(d.dbfile)
              THEN _remove_database_files(d)
              ELSE d
    IN _create_schema(d1)

\* Database.check_integrity: PRAGMA integrity_check answers "ok"
check_integrity(db) == Connect(db) \in {"ok", "empty"}

\* a rebuild that removes the files and does not create the schema again
rebuild_if_corrupted_removed(d) ==
    IF check_integrity(d.dbfile)
    THEN [ret |-> TRUE, disk |-> [d EXCEPT !.dbfile = Connect(d.dbfile)]]
    ELSE [ret |-> TRUE, disk |-> _remove_database_files(d)]

\* Database.rebuild_if_corrupted: (returned value, store on disk)
rebuild_if_corrupted(d) ==
    IF check_integrity(d.dbfile)
    THEN [ret |-> TRUE, disk |-> [d EXCEPT !.dbfile = Connect(d.dbfile)]]
    ELSE [ret |-> TRUE, disk |-> _create_schema(_remove_database_files(d))]

----------------------------------------------------------------------------
(* Statements on the tables *)

\* an ingest transaction without its DELETE FROM documents
DeleteDocuments_kept(docs, path) == docs

\* DELETE FROM documents WHERE path = ?
DeleteDocuments(docs, path) == [docs EXCEPT ![path] = <<>>]

\* DELETE FROM file_metadata WHERE path = ?
DeleteMetadata(meta, path) == {r \in meta : r.path # path}

\* an ingest transaction that loses its documents row
InsertDocument_dropped(docs, path, content, last_modified) == docs

\* INSERT INTO documents: the table has no key, a row is always added
InsertDocument(docs, path, content, last_modified) ==
    [docs EXCEPT ![path] =
        Append(@, [content |-> content, last_modified |-> last_modified])]

MetaRow(path, size, mtime, last_indexed, encoding, error) ==
    [path |-> path, size |-> size, mtime |-> mtime,
     last_indexed |-> last_indexed, encoding |-> encoding, error |-> error]

\* INSERT INTO file_metadata: path is the PRIMARY KEY, a second row for a
\* path raises IntegrityError
InsertMetadata(meta, row) ==
    IF \E r \in meta : r.path = row.path
    THEN [raised |-> TRUE, meta |-> meta]
    ELSE [raised |-> FALSE, meta |-> meta \cup {row}]

\* INSERT OR REPLACE INTO file_metadata
InsertOrReplaceMetadata(meta, row) ==
    {r \in meta : r.path # row.path} \cup {row}

\* SELECT path FROM file_metadata
MetadataPaths(meta) == {r.path : r \in meta}

----------------------------------------------------------------------------
(* src/indexer.py *)

\* FileIndexer.scan_directory: the files under the source directory, outside
\* the index directory, that pass the extension and size filters
ScanFilter(disk, filepath) ==
    /\ CanOpen(disk, filepath)
    /\ IsUnder(filepath, source_path)
    /\ ~IsUnder(filepath, index_path)
    /\ (included_extensions # {} => suffix(filepath) \in included_extensions)
    /\ suffix(filepath) \notin excluded_extensions
    /\ is_within_size_limit(disk, filepath, max_file_size_mb)

scan_directory(disk) ==
    LET Keep(filepath) == ScanFilter(disk, filepath)
    IN SelectSeq(WalkOrder, Keep)

\* a changed-file test that looks at the size only
IsChanged_size(disk, meta, filepath) ==
    LET st == get_file_stats(disk, filepath)
    IN \/ ~\E row \in meta : row.path = filepath
       \/ \E row \in meta : row.path = filepath /\ row.size # st.size

\* a changed-file test that also compares the time of the last ingest with
\* the modification time
IsChanged_stamp(disk, meta, filepath) ==
    LET st == get_file_stats(disk, filepath)
    IN \/ ~\E row \in meta : row.path = filepath
       \/ \E row \in meta :
            /\ row.path = filepath
            /\ (row.size # st.size \/ row.mtime # st.mtime
                   \/ row.last_indexed # st.mtime)

\* the changed-file test of get_changed_files for one file
IsChanged(disk, meta, filepath) ==
    LET st == get_file_stats(disk, filepath)
    IN \/ ~\E row \in meta : row.path = filepath
       \/ \E row \in meta :
            /\ row.path = filepath
            /\ (row.size # st.size \/ row.mtime # st.mtime)

\* a get_changed_files that reports every scanned file as changed
get_changed_files_all(disk, meta, files) ==
    LET Keep(filepath) == CanOpen(disk, filepath)
    IN SelectSeq(files, Keep)

\* FileIndexer.get_changed_files; a file that cannot be stat'ed any more
\* (OSError) is left out
get_changed_files(disk, meta, files) ==
    LET Keep(filepath) ==
            CanOpen(disk, filepath) /\ IsChanged(disk, meta, filepath)
    IN SelectSeq(files, Keep)

\* a failure row written by a plain INSERT: with a row for the path the
\* statement raises, the exception is logged and the old row stays
_save_file_error_insert(meta, filepath, size, mtime, error, t) ==
    InsertMetadata(meta, MetaRow(filepath, size, mtime, t, None, error)).meta

\* FileIndexer._save_file_error
_save_file_error(meta, filepath, size, mtime, error, t) ==
    InsertOrReplaceMetadata(meta, MetaRow(filepath, size, mtime, t, None, error))

\* index_file before it touches the store: classification, stat, encoding
\* detection and the read of the content
index_file_read(disk, filepath) ==
    IF ~is_text_file(disk, filepath)
    THEN [kind |-> "skip", size |-> 0, mtime |-> 0,
          encoding |-> None, content |-> None, error |-> None]
    ELSE LET st == get_file_stats(disk, filepath)
             enc == detect_encoding(disk, filepath)
             rd == read_text_file(disk, filepath, enc.encoding)
         IN IF enc.encoding = None
            THEN [kind |-> "error", size |-> st.size, mtime |-> st.mtime,
                  encoding |-> None, content |-> None, error |-> enc.error]
            ELSE IF rd.content = None
            THEN [kind |-> "error", size |-> st.size, mtime |-> st.mtime,
                  encoding |-> None, content |-> None, error |-> rd.error]
            ELSE [kind |-> "ok", size |-> st.size, mtime |-> st.mtime,
                  encoding |-> enc.encoding, content |-> rd.content,
                  error |-> None]

\* the transaction of index_file: delete the rows of the path, insert the
\* new ones, commit; an exception closes the connection without a commit
index_file_transaction(docs, meta, filepath, rd, t) ==
    LET d1 == DeleteDocuments(docs, filepath)
        m1 == DeleteMetadata(meta, filepath)
        d2 == InsertDocument(d1, filepath, rd.content, rd.mtime)
        m2 == InsertMetadata(m1, MetaRow(filepath, rd.size, rd.mtime, t,
                                         rd.encoding, None))
    IN IF m2.raised
       THEN [ret |-> FALSE, documents |-> docs, file_metadata |-> meta]
       ELSE [ret |-> TRUE, documents |-> d2, file_metadata |-> m2.meta]

\* an ingest that records a failure row for a file that is not text
index_file_write_recorded(docs, meta, filepath, rd, t) ==
    IF rd.kind = "skip" \/ rd.kind = "error"
    THEN [ret |-> FALSE, documents |-> docs,
          file_metadata |->
              _save_file_error(meta, filepath, rd.size, rd.mtime,
                               IF rd.kind = "skip" THEN "not text"
                               ELSE rd.error, t)]
    ELSE index_file_transaction(docs, meta, filepath, rd, t)

\* what index_file does to the store with what it has read
index_file_write(docs, meta, filepath, rd, t) ==
    IF rd.kind = "skip"
    THEN [ret |-> FALSE, documents |-> docs, file_metadata |-> meta]
    ELSE IF rd.kind = "error"
    THEN [ret |-> FALSE, documents |-> docs,
          file_metadata |->
              _save_file_error(meta, filepath, rd.size, rd.mtime, rd.error, t)]
    ELSE index_file_transaction(docs, meta, filepath, rd, t)

\* FileIndexer.index_file
index_file(disk, docs, meta, filepath, t) ==
    index_file_write(docs, meta, filepath, index_file_read(disk, filepath), t)

\* FileIndexer.remove_deleted_files: (rows, removed_count)
\* a sweep that deletes the file_metadata rows and forgets the documents rows
remove_deleted_files_metadata(docs, meta, current_files) ==
    LET gone == {path \in MetadataPaths(meta) : path \notin current_files}
    IN [documents |-> docs,
        file_metadata |-> {r \in meta : r.path \notin gone},
        removed_count |-> Cardinality(gone)]

\* a sweep that takes the files of the scan for the deleted ones
remove_deleted_files_inverted(docs, meta, current_files) ==
    LET gone == {path \in MetadataPaths(meta) : path \in current_files}
    IN [documents |-> [p \in Files |-> IF p \in gone THEN <<>> ELSE docs[p]],
        file_metadata |-> {r \in meta : r.path \notin gone},
        removed_count |-> Cardinality(gone)]

remove_deleted_files(docs, meta, current_files) ==
    LET gone == {path \in MetadataPaths(meta) : path \notin current_files}
    IN [documents |-> [p \in Files |-> IF p \in gone THEN <<>> ELSE docs[p]],
        file_metadata |-> {r \in meta : r.path \notin gone},
        removed_count |-> Cardinality(gone)]

Range(seq) == {seq[i] : i \in 1..Len(seq)}

\* FileIndexer._create_result (duration_seconds is left out)
_create_result(success, processed, added, updated, removed, errors) ==
    [success |-> success, files_processed |-> processed,
     files_added |-> added, files_updated |-> updated,
     files_removed |-> removed, errors |-> errors]

\* the outcome of a call: the RefreshResult and the store it leaves
Outcome(result, db, docs, meta) ==
    [result |-> result, dbfile |-> db, documents |-> docs,
     file_metadata |-> meta]

\* a pass of the ingest loop that forgets to count an updated file as
\* processed
IndexStep_uncounted(disk, existing_files, t, acc, filepath) ==
    LET r == index_file(disk, acc.documents, acc.file_metadata, filepath, t)
    IN IF r.ret
       THEN [documents |-> r.documents, file_metadata |-> r.file_metadata,
             files_processed |-> IF filepath \in existing_files
                                 THEN acc.files_processed
                                 ELSE acc.files_processed + 1,
             files_added |-> IF filepath \in existing_files
                             THEN acc.files_added ELSE acc.files_added + 1,
             files_updated |-> IF filepath \in existing_files
                               THEN acc.files_updated + 1 ELSE acc.files_updated,
             errors |-> acc.errors]
       ELSE [acc EXCEPT !.documents = r.documents,
                        !.file_metadata = r.file_metadata,
                        !.errors = Append(@, Msg("Failed to index ",
                                                 Input(TRUE, filepath)))]

\* a pass of the ingest loop that counts a known path as added and a new one
\* as updated
IndexStep_swapped(disk, existing_files, t, acc, filepath) ==
    LET r == index_file(disk, acc.documents, acc.file_metadata, filepath, t)
    IN IF r.ret
       THEN [documents |-> r.documents, file_metadata |-> r.file_metadata,
             files_processed |-> acc.files_processed + 1,
             files_added |-> IF filepath \in existing_files
                             THEN acc.files_added + 1 ELSE acc.files_added,
             files_updated |-> IF filepath \in existing_files
                               THEN acc.files_updated ELSE acc.files_updated + 1,
             errors |-> acc.errors]
       ELSE [acc EXCEPT !.documents = r.documents,
                        !.file_metadata = r.file_metadata,
                        !.errors = Append(@, Msg("Failed to index ",
                                                 Input(TRUE, filepath)))]

\* a pass of the ingest loop that counts a failed file as processed
IndexStep_failcounted(disk, existing_files, t, acc, filepath) ==
    LET r == index_file(disk, acc.documents, acc.file_metadata, filepath, t)
    IN [documents |-> r.documents, file_metadata |-> r.file_metadata,
        files_processed |-> acc.files_processed + 1,
        files_added |-> IF filepath \in existing_files
                        THEN acc.files_added ELSE acc.files_added + 1,
        files_updated |-> IF filepath \in existing_files
                          THEN acc.files_updated + 1 ELSE acc.files_updated,
        errors |-> IF r.ret THEN acc.errors
                   ELSE Append(acc.errors, Msg("Failed to index ",
                                               Input(TRUE, filepath)))]

\* one pass of the ingest loop of a full refresh
IndexStep(disk, existing_files, t, acc, filepath) ==
    LET r == index_file(disk, acc.documents, acc.file_metadata, filepath, t)
    IN IF r.ret
       THEN [documents |-> r.documents, file_metadata |-> r.file_metadata,
             files_processed |-> acc.files_processed + 1,
             files_added |-> IF filepath \in existing_files
                             THEN acc.files_added ELSE acc.files_added + 1,
             files_updated |-> IF filepath \in existing_files
                               THEN acc.files_updated + 1 ELSE acc.files_updated,
             errors |-> acc.errors]
       ELSE [acc EXCEPT !.documents = r.documents,
                        !.file_metadata = r.file_metadata,
                        !.errors = Append(@, Msg("Failed to index ",
                                                 Input(TRUE, filepath)))]

\* the ingest loop of a full refresh over files_to_process
RECURSIVE IndexLoop(_, _, _, _, _, _)
IndexLoop(disk, files_to_process, i, existing_files, t, acc) ==
    IF i > Len(files_to_process) THEN acc
    ELSE IndexLoop(disk, files_to_process, i + 1, existing_files, t,
                   IndexStep(disk, existing_files, t, acc, files_to_process[i]))

\* a full refresh that reports success whatever the ingest loop met
FullRefresh_optimistic(disk, docs, meta, force, t) ==
    LET all_files == scan_directory(disk)
        files_to_process == IF force THEN all_files
                            ELSE get_changed_files(disk, meta, all_files)
        existing_files == MetadataPaths(meta)
        done == IndexLoop(disk, files_to_process, 1, existing_files, t,
                    [documents |-> docs, file_metadata |-> meta,
                     files_processed |-> 0, files_added |-> 0,
                     files_updated |-> 0, errors |-> <<>>])
        swept == remove_deleted_files(done.documents, done.file_metadata,
                                      Range(all_files))
    IN Outcome(_create_result(TRUE, done.files_processed,
                              done.files_added, done.files_updated,
                              swept.removed_count, done.errors),
               "ok", swept.documents, swept.file_metadata)

\* refresh_index without a specific file, on a usable store
FullRefresh(disk, docs, meta, force, t) ==
    LET all_files == scan_directory(disk)
        files_to_process == IF force THEN all_files
                            ELSE get_changed_files(disk, meta, all_files)
        existing_files == MetadataPaths(meta)
        done == IndexLoop(disk, files_to_process, 1, existing_files, t,
                    [documents |-> docs, file_metadata |-> meta,
                     files_processed |-> 0, files_added |-> 0,
                     files_updated |-> 0, errors |-> <<>>])
        swept == remove_deleted_files(done.documents, done.file_metadata,
                                      Range(all_files))
    IN Outcome(_create_result(Len(done.errors) = 0, done.files_processed,
                              done.files_added, done.files_updated,
                              swept.removed_count, done.errors),
               "ok", swept.documents, swept.file_metadata)

\* a single-file refresh that counts a known path as added and a new one as
\* updated
SingleRefresh_swapped(disk, db, docs, meta, specific_file, t) ==
    LET v == _validate_file_path(specific_file)
        filepath == v.path
        existing == \E row \in meta : row.path = filepath
        r == index_file(disk, docs, meta, filepath, t)
    IN IF v.raised
       THEN Outcome(_create_result(FALSE, 0, 0, 0, 0, <<v.error>>),
                    db, docs, meta)
       ELSE IF ~exists(disk, filepath)
       THEN Outcome(_create_result(FALSE, 0, 0, 0, 0,
                        <<Msg("File not found: ", Input(TRUE, filepath))>>),
                    db, docs, meta)
       ELSE IF ~TablesUsable(db)
       THEN Outcome(_create_result(FALSE, 0, 0, 0, 0,
                                   <<get_connection_error(db)>>),
                    Connect(db), docs, meta)
       ELSE IF r.ret
       THEN Outcome(_create_result(TRUE, 1, IF existing THEN 1 ELSE 0,
                                   IF existing THEN 0 ELSE 1, 0, <<>>),
                    db, r.documents, r.file_metadata)
       ELSE Outcome(_create_result(FALSE, 0, 0, 0, 0,
                        <<Msg("Failed to index ", Input(TRUE, filepath))>>),
                    db, r.documents, r.file_metadata)

\* a single-file refresh that ends with the sweep of the full refresh
SingleRefresh_sweeping(disk, db, docs, meta, specific_file, t) ==
    LET v == _validate_file_path(specific_file)
        filepath == v.path
        existing == \E row \in meta : row.path = filepath
        r == index_file(disk, docs, meta, filepath, t)
        swept == remove_deleted_files(r.documents, r.file_metadata,
                                      Range(scan_directory(disk)) \cup {filepath})
    IN IF v.raised
       THEN Outcome(_create_result(FALSE, 0, 0, 0, 0, <<v.error>>),
                    db, docs, meta)
       ELSE IF ~exists(disk, filepath)
       THEN Outcome(_create_result(FALSE, 0, 0, 0, 0,
                        <<Msg("File not found: ", Input(TRUE, filepath))>>),
                    db, docs, meta)
       ELSE IF ~TablesUsable(db)
       THEN Outcome(_create_result(FALSE, 0, 0, 0, 0,
                                   <<get_connection_error(db)>>),
                    Connect(db), docs, meta)
       ELSE IF r.ret
       THEN Outcome(_create_result(TRUE, 1, IF existing THEN 0 ELSE 1,
                                   IF existing THEN 1 ELSE 0,
                                   swept.removed_count, <<>>),
                    db, swept.documents, swept.file_metadata)
       ELSE Outcome(_create_result(FALSE, 0, 0, 0, 0,
                        <<Msg("Failed to index ", Input(TRUE, filepath))>>),
                    db, r.documents, r.file_metadata)

\* refresh_index with a specific file
SingleRefresh(disk, db, docs, meta, specific_file, t) ==
    LET v == _validate_file_path(specific_file)
        filepath == v.path
        existing == \E row \in meta : row.path = filepath
        r == index_file(disk, docs, meta, filepath, t)
    IN IF v.raised
       THEN Outcome(_create_result(FALSE, 0, 0, 0, 0, <<v.error>>),
                    db, docs, meta)
       ELSE IF ~exists(disk, filepath)
       THEN Outcome(_create_result(FALSE, 0, 0, 0, 0,
                        <<Msg("File not found: ", Input(TRUE, filepath))>>),
                    db, docs, meta)
       ELSE IF ~TablesUsable(db)
       THEN Outcome(_create_result(FALSE, 0, 0, 0, 0,
                                   <<get_connection_error(db)>>),
                    Connect(db), docs, meta)
       ELSE IF r.ret
       THEN Outcome(_create_result(TRUE, 1, IF existing THEN 0 ELSE 1,
                                   IF existing THEN 1 ELSE 0, 0, <<>>),
                    db, r.documents, r.file_metadata)
       ELSE Outcome(_create_result(FALSE, 0, 0, 0, 0,
                        <<Msg("Failed to index ", Input(TRUE, filepath))>>),
                    db, r.documents, r.file_metadata)

\* an except clause that gives up the counters of the refresh
refresh_index_except_reset(raised, processed, added, updated, removed, errors) ==
    IF IsInstance(raised.type, "Exception")
    THEN [raised |-> NoRaise,
          result |-> _create_result(FALSE, 0, 0, 0, 0,
                                    Append(errors, Msg(raised.text, NoneInput)))]
    ELSE [raised |-> raised,
          result |-> _create_result(FALSE, 0, 0, 0, 0, <<>>)]

\* the except clause of refresh_index, lines 336-342: the exception that
\* left the try block is logged, its text is appended to errors and the
\* result is made of the local counters as they are
refresh_index_except(raised, processed, added, updated, removed, errors) ==
    IF IsInstance(raised.type, "Exception")
    THEN [raised |-> NoRaise,
          result |-> _create_result(FALSE, processed, added, updated, removed,
                                    Append(errors, Msg(raised.text, NoneInput)))]
    ELSE [raised |-> raised,
          result |-> _create_result(FALSE, 0, 0, 0, 0, <<>>)]

\* the statements of refresh_index on the store outside index_file: the
\* lookup of the path (single file), get_changed_files, the snapshot of the
\* known paths, the sweep
RefreshStatements == {"lookup", "changed", "snapshot", "sweep"}

\* refresh_index on a usable store when sqlite3 raises e at the statement
\* at: (exception that leaves refresh_index, result, rows afterwards); the
\* ingests before the sweep have committed their rows
refresh_index_aborted(disk, docs, meta, specific_file, force, t, at, e) ==
    LET raised == get_connection(e)
        all_files == scan_directory(disk)
        files_to_process == IF force THEN all_files
                            ELSE get_changed_files(disk, meta, all_files)
        done == IndexLoop(disk, files_to_process, 1, MetadataPaths(meta), t,
                    [documents |-> docs, file_metadata |-> meta,
                     files_processed |-> 0, files_added |-> 0,
                     files_updated |-> 0, errors |-> <<>>])
    IN IF at = "sweep"
       THEN [out |-> refresh_index_except(raised, done.files_processed,
                         done.files_added, done.files_updated, 0, done.errors),
             documents |-> done.documents,
             file_metadata |-> done.file_metadata]
       ELSE [out |-> refresh_index_except(raised, 0, 0, 0, 0, <<>>),
             documents |-> docs, file_metadata |-> meta]

\* FileIndexer.refresh_index
refresh_index(disk, db, docs, meta, specific_file, force, t) ==
    IF Truthy(specific_file)
    THEN SingleRefresh(disk, db, docs, meta, specific_file, t)
    ELSE IF ~TablesUsable(db)
    THEN Outcome(_create_result(FALSE, 0, 0, 0, 0, <<get_connection_error(db)>>),
                 Connect(db), docs, meta)
    ELSE FullRefresh(disk, docs, meta, force, t)

----------------------------------------------------------------------------
(* main.py: the tools of the server, its lazy initialization, its scanner *)

\* the largest number of scanner tasks created in one behaviour
MaxTasks == 2

\* a string that a tool returns is kept as the words of its fixed text
NotInitialized == <<"Error:", "Server", "not", "properly", "initialized">>
ErrorPrefix == <<"Error:">>

\* how a coroutine of main.py ends: with a returned value, or with an
\* exception that reaches its caller
Returns(value) == [raised |-> None, value |-> value]
Raises(type) == [raised |-> type, value |-> <<>>]

\* the module at import: no component, no task, nothing initialized; awaiting
\* is the task that a suspended shutdown awaits, op, out and accessed tell
\* the last coroutine that ran, how it ended and whether it touched the
\* store, scanner which task it was when it was a scanner task, shut tells
\* that shutdown was called since the last task was created, initial_scan
\* that the initial refresh has run and in which state it found the task
ServerStart ==
    [_initialized |-> FALSE, _test_mode |-> FALSE,
     config |-> FALSE, db |-> FALSE, indexer |-> FALSE, search_engine |-> FALSE,
     background_task |-> 0, tasks |-> <<>>, awaiting |-> 0,
     op |-> "import", out |-> Returns(<<>>), accessed |-> FALSE, shut |-> FALSE,
     scanner |-> 0, initial_scan |-> [done |-> FALSE, task |-> None]]

\* what initialize_server finds: a valid configuration and a store that can
\* be created, no configuration file, an invalid one, a database that
\* cannot be created, or a rebuild that fails
InitEnvs == {"ok", "noconfig", "badconfig", "nostore", "norebuild"}

\* states of a scanner task: created and not yet run, suspended in
\* asyncio.sleep, cancelled in either of the two, finished by its break,
\* cancelled before it ran
TaskStates ==
    {"scheduled", "sleeping", "cancel_scheduled", "cancel_sleeping", "done",
     "cancelled"}

\* Task.done()
TaskDone(task) == task \in {"done", "cancelled"}

\* an initialization that scans before it creates the scanner task
initialize_server_scan_first(srv, env) ==
    IF env = "noconfig"
    THEN [raised |-> "ConfigurationError", srv |-> srv, accessed |-> FALSE]
    ELSE IF env = "badconfig"
    THEN [raised |-> "ConfigurationError", srv |-> srv, accessed |-> FALSE]
    ELSE LET s1 == [srv EXCEPT !.config = TRUE]
         IN IF env = "nostore"
            THEN [raised |-> "IndexCorruptionError", srv |-> s1,
                  accessed |-> TRUE]
            ELSE LET s2 == [s1 EXCEPT !.db = TRUE]
                     s3 == [s2 EXCEPT
                              !.indexer = TRUE,
                              !.search_engine = TRUE,
                              !.initial_scan = [done |-> TRUE, task |-> None]]
                     s4 == [s3 EXCEPT
                              !.tasks = Append(@, "scheduled"),
                              !.background_task = Len(s2.tasks) + 1,
                              !.shut = FALSE]
                 IN IF env = "norebuild"
                    THEN [raised |-> "IndexingError", srv |-> s2,
                          accessed |-> TRUE]
                    ELSE [raised |-> None, srv |-> s4, accessed |-> TRUE]

\* initialize_server: (exception or None, globals afterwards, store touched);
\* the statements run in the order of the source, without an await: the
\* task is created, then the initial refresh runs and finds the task as it
\* was created; the except clause logs and raises again
initialize_server(srv, env) ==
    IF env = "noconfig"
    THEN [raised |-> "ConfigurationError", srv |-> srv, accessed |-> FALSE]
    ELSE IF env = "badconfig"
    THEN [raised |-> "ConfigurationError", srv |-> srv, accessed |-> FALSE]
    ELSE LET s1 == [srv EXCEPT !.config = TRUE]
         IN IF env = "nostore"
            THEN [raised |-> "IndexCorruptionError", srv |-> s1,
                  accessed |-> TRUE]
            ELSE LET s2 == [s1 EXCEPT !.db = TRUE]
                     s3 == [s2 EXCEPT
                              !.indexer = TRUE,
                              !.search_engine = TRUE,
                              !.tasks = Append(@, "scheduled"),
                              !.background_task = Len(s2.tasks) + 1,
                              !.shut = FALSE]
                     s4 == [s3 EXCEPT
                              !.initial_scan =
                                  [done |-> TRUE,
                                   task |-> s3.tasks[s3.background_task]]]
                 IN IF env = "norebuild"
                    THEN [raised |-> "IndexingError", srv |-> s2,
                          accessed |-> TRUE]
                    ELSE [raised |-> None, srv |-> s4, accessed |-> TRUE]

\* a guard that does not remember that it has initialized
ensure_initialized_forgetful(srv, env) ==
    IF ~srv._test_mode /\ ~srv._initialized
    THEN initialize_server(srv, env)
    ELSE [raised |-> None, srv |-> srv, accessed |-> FALSE]

\* ensure_initialized
ensure_initialized(srv, env) ==
    IF ~srv._test_mode /\ ~srv._initialized
    THEN LET r == initialize_server(srv, env)
         IN IF r.raised # None THEN r
            ELSE [r EXCEPT !.srv._initialized = TRUE]
    ELSE [raised |-> None, srv |-> srv, accessed |-> FALSE]

\* what the component does that a tool calls: it returns results, it
\* returns none, or it raises
Outcomes == {"ok", "empty", "raises"}

\* a search tool without the test of search_engine: the call on None raises
\* inside the try
main_search_unchecked(srv, env, outcome) ==
    LET g == ensure_initialized(srv, env)
    IN IF g.raised # None
       THEN [out |-> Raises(g.raised), srv |-> g.srv, accessed |-> g.accessed]
       ELSE [out |-> Returns(
                 CASE outcome = "raises" \/ ~g.srv.search_engine
                        -> <<"Error", "executing", "search:">>
                   [] outcome = "empty" -> <<"No", "results", "found", "for:">>
                   [] OTHER -> <<"Found">>),
             srv |-> g.srv, accessed |-> g.srv.search_engine]

\* the tool search of main.py: (how it ends, globals, store touched)
main_search(srv, env, outcome) ==
    LET g == ensure_initialized(srv, env)
    IN IF g.raised # None
       THEN [out |-> Raises(g.raised), srv |-> g.srv, accessed |-> g.accessed]
       ELSE IF ~g.srv.search_engine
       THEN [out |-> Returns(NotInitialized), srv |-> g.srv,
             accessed |-> g.accessed]
       ELSE [out |-> Returns(
                 CASE outcome = "raises" -> <<"Error", "executing", "search:">>
                   [] outcome = "empty" -> <<"No", "results", "found", "for:">>
                   [] OTHER -> <<"Found">>),
             srv |-> g.srv, accessed |-> TRUE]

\* the tool get_index_stats of main.py
main_get_index_stats(srv, env, outcome) ==
    LET g == ensure_initialized(srv, env)
    IN IF g.raised # None
       THEN [out |-> Raises(g.raised), srv |-> g.srv, accessed |-> g.accessed]
       ELSE IF ~g.srv.search_engine \/ ~g.srv.db
       THEN [out |-> Returns(NotInitialized), srv |-> g.srv,
             accessed |-> g.accessed]
       ELSE [out |-> Returns(
                 CASE outcome = "raises"
                        -> <<"Error", "getting", "index", "stats:">>
                   [] OTHER -> <<"Index", "Statistics:">>),
             srv |-> g.srv, accessed |-> TRUE]

\* the tool refresh_index of main.py
main_refresh_index(srv, env, outcome) ==
    LET g == ensure_initialized(srv, env)
    IN IF g.raised # None
       THEN [out |-> Raises(g.raised), srv |-> g.srv, accessed |-> g.accessed]
       ELSE IF ~g.srv.indexer
       THEN [out |-> Returns(NotInitialized), srv |-> g.srv,
             accessed |-> g.accessed]
       ELSE [out |-> Returns(
                 CASE outcome = "raises" -> <<"Error", "executing", "refresh:">>
                   [] outcome = "empty" -> <<"Refresh", "failed:">>
                   [] OTHER -> <<"Refresh", "completed:">>),
             srv |-> g.srv, accessed |-> TRUE]

Tools == {"search", "get_index_stats", "refresh_index"}

Tool(op, srv, env, outcome) ==
    CASE op = "search" -> main_search(srv, env, outcome)
      [] op = "get_index_stats" -> main_get_index_stats(srv, env, outcome)
      [] OTHER -> main_refresh_index(srv, env, outcome)

\* one turn of the loop of periodic_scan after its sleep: the refresh
\* returns a result, with or without errors, and the turn logs it, or
\* something raises and the except clause logs the exception; the turn
\* ends in both cases and the loop goes on
periodic_scan_turn(outcome) ==
    IF outcome = "raises"
    THEN Returns(<<"Error", "in", "periodic", "scan:">>)
    ELSE Returns(<<"Periodic", "scan", "complete:">>)

\* shutdown at its await: the task has finished, or the await raises the
\* CancelledError of the task and the except clause passes
shutdown_await(task) ==
    LET e == IF task = "cancelled" THEN "CancelledError" ELSE None
    IN IF e = None THEN Returns(<<>>)
       ELSE IF e = "CancelledError" THEN Returns(<<>>)
       ELSE Raises(e)

----------------------------------------------------------------------------
(* src/search.py; a query is a sequence of characters *)

\* the longest query, in pieces, the largest limit and the largest absolute
\* BM25 score of the searches explored
MaxQueryLen == 3
MaxLimit == 1
MaxScore == 2

QUOTE == "\""

\* what the queries are made of: a double quote, a letter, a blank, the
\* operator OR and a quoted word
QueryPieces ==
    {<<QUOTE>>, <<"a">>, <<" ">>, <<"O", "R">>, <<QUOTE, "a", QUOTE>>}

RECURSIVE QueriesOf(_)
QueriesOf(n) ==
    IF n = 0 THEN {<<>>}
    ELSE LET shorter == QueriesOf(n - 1)
         IN shorter \cup {q \o p : q \in shorter, p \in QueryPieces}

Queries == QueriesOf(MaxQueryLen)

\* str.endswith
EndsWith(s, tail) ==
    /\ Len(tail) <= Len(s)
    /\ SubSeq(s, Len(s) - Len(tail) + 1, Len(s)) = tail

\* the in operator of Python on strings
In(needle, s) ==
    \E i \in 1..(Len(s) - Len(needle) + 1) :
        SubSeq(s, i, i + Len(needle) - 1) = needle

\* str.replace of one character
RECURSIVE Replace(_, _, _)
Replace(s, old, new) ==
    IF s = <<>> THEN <<>>
    ELSE (IF Head(s) = old THEN new ELSE <<Head(s)>>)
             \o Replace(Tail(s), old, new)

\* str.strip
RECURSIVE strip(_)
strip(s) ==
    IF s = <<>> THEN <<>>
    ELSE IF Head(s) = " " THEN strip(Tail(s))
    ELSE IF s[Len(s)] = " " THEN strip(SubSeq(s, 1, Len(s) - 1))
    ELSE s

special_chars ==
    {<<QUOTE>>, <<"'">>, <<"-">>, <<"*">>, <<":">>, <<".">>, <<"(">>, <<")">>,
     <<"A", "N", "D">>, <<"O", "R">>, <<"N", "O", "T">>}

\* SearchEngine._escape_fts_query
_escape_fts_query(query) ==
    IF StartsWith(query, <<QUOTE>>) /\ EndsWith(query, <<QUOTE>>)
    THEN query
    ELSE IF \E char \in special_chars : In(char, query)
    THEN LET escaped == Replace(query, QUOTE, <<QUOTE, QUOTE>>)
         IN <<QUOTE>> \o escaped \o <<QUOTE>>
    ELSE query

\* bm25(documents) of the rows that MATCH: rank gives each path 0 when its
\* document does not match and the absolute value of its score otherwise;
\* the raw score of FTS5 is negative
Ranks == [SourceFiles -> 0..MaxScore]

MatchRows(docs, rank) ==
    {[path |-> p, score |-> 0 - rank[p]] :
        p \in {f \in SourceFiles : docs[f] # <<>> /\ rank[f] # 0}}

\* position of a path in the table
RowId(p) == CHOOSE i \in 1..Len(WalkOrder) : WalkOrder[i] = p

\* ORDER BY score
RECURSIVE OrderByScore(_)
OrderByScore(rows) ==
    IF rows = {} THEN <<>>
    ELSE LET r == CHOOSE x \in rows :
                    \A o \in rows :
                        \/ x.score < o.score
                        \/ (x.score = o.score /\ RowId(x.path) <= RowId(o.path))
         IN <<r>> \o OrderByScore(rows \ {r})

\* LIMIT ?: a negative limit is no limit
Limit(rows, limit) ==
    IF limit < 0 THEN rows
    ELSE SubSeq(rows, 1, IF limit < Len(rows) THEN limit ELSE Len(rows))

Abs(x) == IF x < 0 THEN 0 - x ELSE x

\* the SearchResult of a row
SearchResult(row) == [path |-> row.path, score |-> Abs(row.score)]

\* the error of FTS5 for a MATCH expression that it cannot parse
SyntaxError == StoreError("OperationalError", "fts5: syntax error")

\* what goes wrong in the statement of a search: nothing, FTS5 rejects the
\* expression, or the store raises
SearchFaults ==
    {NoError, SyntaxError,
     StoreError("DatabaseError", "database disk image is malformed")}

\* a search that catches sqlite3.OperationalError only
search_operational(db, docs, query, limit, rank, fault) ==
    IF query = <<>> \/ strip(query) = <<>>
    THEN [raised |-> None, results |-> <<>>, escaped |-> <<>>]
    ELSE LET escaped_query == _escape_fts_query(query)
             e == IF fault = NoError THEN sqlite_error(db) ELSE fault
             exc == get_connection(e)
             rows == Limit(OrderByScore(MatchRows(docs, rank)), limit)
         IN IF exc = NoRaise
            THEN [raised |-> None,
                  results |-> [i \in 1..Len(rows) |-> SearchResult(rows[i])],
                  escaped |-> escaped_query]
            ELSE IF IsInstance(exc.type, "OperationalError")
            THEN [raised |-> None, results |-> <<>>,
                  escaped |-> escaped_query]
            ELSE [raised |-> exc.type, results |-> <<>>,
                  escaped |-> escaped_query]

\* SearchEngine.search: (exception or None, results, the MATCH expression);
\* the statement runs in the scope of get_connection
search(db, docs, query, limit, rank, fault) ==
    IF query = <<>> \/ strip(query) = <<>>
    THEN [raised |-> None, results |-> <<>>, escaped |-> <<>>]
    ELSE LET escaped_query == _escape_fts_query(query)
             e == IF fault = NoError THEN sqlite_error(db) ELSE fault
             exc == get_connection(e)
             rows == Limit(OrderByScore(MatchRows(docs, rank)), limit)
         IN IF exc = NoRaise
            THEN [raised |-> None,
                  results |-> [i \in 1..Len(rows) |-> SearchResult(rows[i])],
                  escaped |-> escaped_query]
            ELSE IF IsInstance(exc.type, "OperationalError")
            THEN [raised |-> None, results |-> <<>>,
                  escaped |-> escaped_query]
            ELSE IF IsInstance(exc.type, "Exception")
            THEN [raised |-> None, results |-> <<>>,
                  escaped |-> escaped_query]
            ELSE [raised |-> exc.type, results |-> <<>>,
                  escaped |-> escaped_query]

\* a call of search: its arguments, what the store does, and what is back
SearchCall(query, limit, rank, fault) ==
    [pc |-> "call", query |-> query, limit |-> limit, rank |-> rank,
     fault |-> fault, cause |-> NoError,
     out |-> [raised |-> None, results |-> <<>>, escaped |-> <<>>]]

NoSearch == SearchCall(<<>>, 0, [f \in SourceFiles |-> 0], NoError)

----------------------------------------------------------------------------
(* The transaction of index_file, statement by statement *)

\* an ingest that commits its deletes before it inserts
index_file_statements_two_commits ==
    <<"delete_documents", "delete_metadata", "commit", "insert_documents",
      "insert_metadata", "commit">>

\* the statements that index_file runs on its connection, in their order
index_file_statements ==
    <<"delete_documents", "delete_metadata", "insert_documents",
      "insert_metadata", "commit">>

\* the tables as a connection sees them
View(docs, meta) == [documents |-> docs, file_metadata |-> meta]

\* one statement on the connection: (raised, the connection's view, the
\* committed tables); the writes of a connection stay in its view until it
\* commits
ExecuteStatement(statement, view, committed, filepath, rd, t) ==
    CASE statement = "delete_documents" ->
            [raised |-> FALSE, committed |-> committed,
             view |-> [view EXCEPT
                         !.documents = DeleteDocuments(@, filepath)]]
      [] statement = "delete_metadata" ->
            [raised |-> FALSE, committed |-> committed,
             view |-> [view EXCEPT
                         !.file_metadata = DeleteMetadata(@, filepath)]]
      [] statement = "insert_documents" ->
            [raised |-> FALSE, committed |-> committed,
             view |-> [view EXCEPT
                         !.documents = InsertDocument(@, filepath, rd.content,
                                                      rd.mtime)]]
      [] statement = "insert_metadata" ->
            LET m == InsertMetadata(view.file_metadata,
                                    MetaRow(filepath, rd.size, rd.mtime, t,
                                            rd.encoding, None))
            IN [raised |-> m.raised, committed |-> committed,
                view |-> [view EXCEPT !.file_metadata = m.meta]]
      [] OTHER -> [raised |-> FALSE, committed |-> view, view |-> view]

\* no ingest is in its transaction; old is what was committed for the path
\* when the transaction began
NoTxn ==
    [state |-> "none", filepath |-> <<>>, pc |-> 0, t |-> 0,
     rd |-> [kind |-> "skip", size |-> 0, mtime |-> 0, encoding |-> None,
             content |-> None, error |-> None],
     view |-> View(NoDocuments, {}), old |-> View(NoDocuments, {})]

----------------------------------------------------------------------------
(* The state machine: the store, the indexer and their environment *)

NoResult == _create_result(FALSE, 0, 0, 0, 0, <<>>)

\* what the call before the last one was: a full refresh or not, whether it
\* returned success, and whether it ingested every file it scanned
NoPrev == [full |-> FALSE, success |-> FALSE, complete |-> FALSE]

\* a call as the properties see it: what was called with which arguments,
\* what it returned, how many files it scanned, the call before it and the
\* state of the database file it found; for a call of the store also the
\* exception it raised, the files of the store it found on disk (before) and
\* the ones that were there when it created the database (found); for a
\* refresh that a store error aborted, the statement and the error
Call(op, specific_file, force, result, scanned, prev, db) ==
    [op |-> op, specific_file |-> specific_file, force |-> force,
     result |-> result, scanned |-> scanned, prev |-> prev, db |-> db,
     raised |-> NoRaise, before |-> {}, found |-> {},
     at |-> None, fault |-> NoError]

OtherCall(op) == Call(op, NoneInput, FALSE, NoResult, 0, NoPrev, None)

IsFullRefresh(call) == call.op = "refresh" /\ ~Truthy(call.specific_file)

PrevOf(call) ==
    [full |-> IsFullRefresh(call),
     success |-> call.result.success,
     complete |-> call.result.files_processed = call.scanned]

\* the two callers of refresh_index: the refresh_index tool and periodic_scan
Procs == {"tool", "periodic"}

\* a refresh in progress: where it stands and its local variables
IdleProc ==
    [pc |-> "idle", specific_file |-> NoneInput, force |-> FALSE,
     all_files |-> <<>>, files_to_process |-> <<>>, i |-> 0,
     existing_files |-> {},
     files_processed |-> 0, files_added |-> 0, files_updated |-> 0,
     files_removed |-> 0, errors |-> <<>>]

\* the source directory is empty, the store has just been constructed
Init ==
    /\ fs = [f \in Files |->
                IF f \in SourceFiles THEN NoFile
                ELSE [size |-> 1, mtime |-> 1, data |-> "text"]]
    /\ dbfile = "ok"
    /\ journal = {}
    /\ documents = NoDocuments
    /\ file_metadata = {}
    /\ now = 0
    /\ last = OtherCall("init")
    /\ procs = [p \in Procs |-> IdleProc]
    /\ server = ServerStart
    /\ searched = NoSearch
    /\ txn = NoTxn
    /\ conns = NoScope

\* a file of the source directory is created or rewritten
FsWrite(f, st) ==
    /\ now < MaxClock
    /\ fs[f] # st
    /\ fs' = [fs EXCEPT ![f] = st]
    /\ last' = OtherCall("fs")
    /\ UNCHANGED <<dbfile, journal, documents, file_metadata, now, procs>>
    /\ UNCHANGED <<server, searched, txn, conns>>

\* a file of the source directory is deleted
FsDelete(f) ==
    /\ now < MaxClock
    /\ fs[f] # NoFile
    /\ fs' = [fs EXCEPT ![f] = NoFile]
    /\ last' = OtherCall("fs")
    /\ UNCHANGED <<dbfile, journal, documents, file_metadata, now, procs>>
    /\ UNCHANGED <<server, searched, txn, conns>>

\* the database file is damaged or deleted behind the back of the server;
\* the rows it held are lost, journal files may stay behind
Corrupt(kind, jr) ==
    /\ now < MaxClock
    /\ dbfile = "ok"
    /\ dbfile' = kind
    /\ journal' = jr
    /\ documents' = NoDocuments
    /\ file_metadata' = {}
    /\ last' = OtherCall("corrupt")
    /\ UNCHANGED <<fs, now, procs>>
    /\ UNCHANGED <<server, searched, txn, conns>>

\* Database(db_path): the store is constructed over what is on disk
DatabaseInit ==
    /\ now < MaxClock
    /\ LET d == _ensure_schema(Disk(dbfile, journal, documents, file_metadata))
       IN /\ dbfile' = d.dbfile
          /\ journal' = d.journal
          /\ documents' = d.documents
          /\ file_metadata' = d.file_metadata
          /\ last' = [OtherCall("construct") EXCEPT
                          !.db = dbfile,
                          !.before = FilesOf(Disk(dbfile, journal, documents,
                                                  file_metadata)),
                          !.found = d.found]
    /\ now' = now + 1
    /\ UNCHANGED <<fs, procs>>
    /\ UNCHANGED <<server, searched, txn, conns>>

\* Database.rebuild_if_corrupted
RebuildIfCorrupted ==
    /\ now < MaxClock
    /\ LET r == rebuild_if_corrupted(Disk(dbfile, journal, documents,
                                          file_metadata))
       IN /\ dbfile' = r.disk.dbfile
          /\ journal' = r.disk.journal
          /\ documents' = r.disk.documents
          /\ file_metadata' = r.disk.file_metadata
          /\ last' = [Call("rebuild", NoneInput, FALSE,
                           _create_result(r.ret, 0, 0, 0, 0, <<>>), 0, NoPrev,
                           dbfile) EXCEPT
                          !.before = FilesOf(Disk(dbfile, journal, documents,
                                                  file_metadata)),
                          !.found = r.disk.found]
    /\ now' = now + 1
    /\ UNCHANGED <<fs, procs>>
    /\ UNCHANGED <<server, searched, txn, conns>>

\* what goes wrong in a scope of get_connection over a sound database
\* file: nothing, or sqlite3 raises at connect or at the statement; over a
\* damaged file the state of the file decides what is raised
Faults ==
    {NoError,
     StoreError("OperationalError", "file is not a database"),
     StoreError("DatabaseError", "database disk image is malformed"),
     StoreError("InterfaceError", "Error binding parameter 0")}

\* with db.get_connection() as conn: a statement on the tables
ScopedStatement(fault) ==
    /\ now < MaxClock
    /\ fault # NoError => dbfile = "ok"
    /\ now' = now + 1
    /\ LET e == IF fault = NoError THEN sqlite_error(dbfile) ELSE fault
       IN last' = [OtherCall("statement") EXCEPT !.db = dbfile,
                                                 !.raised = get_connection(e)]
    /\ dbfile' = IF fault = NoError THEN Connect(dbfile) ELSE dbfile
    /\ UNCHANGED <<fs, journal, documents, file_metadata, procs>>
    /\ UNCHANGED <<server, searched, txn, conns>>

\* FileIndexer.refresh_index(specific_file, force), run from start to end;
\* with a specific file the code never reads force
RefreshIndex(specific_file, force) ==
    /\ now < MaxClock
    /\ now' = now + 1
    /\ LET o == refresh_index(fs, dbfile, documents, file_metadata,
                              specific_file, force, now')
       IN /\ dbfile' = o.dbfile
          /\ documents' = o.documents
          /\ file_metadata' = o.file_metadata
          /\ last' = Call("refresh", specific_file, force, o.result,
                          Len(scan_directory(fs)), PrevOf(last), dbfile)
    /\ UNCHANGED <<fs, journal, procs>>
    /\ UNCHANGED <<server, searched, txn, conns>>

Next ==
    \/ \E f \in SourceFiles : \E st \in FileStates(f) : FsWrite(f, st)
    \/ \E f \in SourceFiles : FsDelete(f)
    \/ \E kind \in DbStates \ {"ok"}, jr \in {{}, {"wal", "shm"}} :
          Corrupt(kind, jr)
    \/ DatabaseInit
    \/ RebuildIfCorrupted
    \/ \E fault \in Faults : ScopedStatement(fault)
    \/ \E force \in BOOLEAN : RefreshIndex(NoneInput, force)
    \/ \E specific_file \in SpecificInputs : RefreshIndex(specific_file, FALSE)

Spec == Init /\ [][Next]_vars

----------------------------------------------------------------------------
(* refresh_index step by step: the refresh_index tool and periodic_scan are
   not mutually excluded, their reads and transactions interleave *)

Running(p) == procs[p].pc # "idle"

\* full refresh, lines 297-306: the scan of the source directory, which reads
\* the file system only, then get_changed_files in one scoped connection
StartFull(p, force) ==
    /\ procs[p].pc = "idle"
    /\ now < MaxClock
    /\ now' = now + 1
    /\ LET all_files == scan_directory(fs)
       IN procs' = [procs EXCEPT ![p] =
            [IdleProc EXCEPT
               !.pc = "snapshot",
               !.force = force,
               !.all_files = all_files,
               !.files_to_process =
                   IF force THEN all_files
                   ELSE get_changed_files(fs, file_metadata, all_files)]]
    /\ UNCHANGED <<fs, dbfile, journal, documents, file_metadata, last>>
    /\ UNCHANGED <<server, searched, txn, conns>>

\* full refresh, lines 310-314: the snapshot of the known paths
Snapshot(p) ==
    /\ procs[p].pc = "snapshot"
    /\ procs' = [procs EXCEPT
            ![p].pc = IF procs[p].files_to_process = <<>>
                      THEN "sweep" ELSE "index",
            ![p].i = 1,
            ![p].existing_files = MetadataPaths(file_metadata)]
    /\ UNCHANGED <<fs, dbfile, journal, documents, file_metadata, now, last>>
    /\ UNCHANGED <<server, searched, txn, conns>>

\* single-file refresh, lines 270-284: validation, existence and the lookup
\* of the path in file_metadata
StartSingle(p, specific_file) ==
    /\ procs[p].pc = "idle"
    /\ now < MaxClock
    /\ now' = now + 1
    /\ LET v == _validate_file_path(specific_file)
           base == [IdleProc EXCEPT !.specific_file = specific_file]
       IN procs' = [procs EXCEPT ![p] =
            IF v.raised
            THEN [base EXCEPT !.pc = "return", !.errors = <<v.error>>]
            ELSE IF ~exists(fs, v.path)
            THEN [base EXCEPT !.pc = "return",
                    !.errors = <<Msg("File not found: ", Input(TRUE, v.path))>>]
            ELSE [base EXCEPT !.pc = "index", !.i = 1,
                    !.files_to_process = <<v.path>>,
                    !.existing_files = {v.path} \cap MetadataPaths(file_metadata)]]
    /\ UNCHANGED <<fs, dbfile, journal, documents, file_metadata, last>>
    /\ UNCHANGED <<server, searched, txn, conns>>

\* a loop that hands over to the sweep after its first turn
IndexFile_early_sweep(p) ==
    /\ procs[p].pc = "index"
    /\ LET q == procs[p]
           filepath == q.files_to_process[q.i]
           w == index_file_write(documents, file_metadata, filepath,
                                 index_file_read(fs, filepath), now)
           known == filepath \in q.existing_files
       IN /\ documents' = w.documents
          /\ file_metadata' = w.file_metadata
          /\ procs' = [procs EXCEPT ![p] =
                [q EXCEPT
                   !.pc = IF Truthy(q.specific_file) THEN "return"
                          ELSE "sweep",
                   !.i = q.i + 1,
                   !.files_processed = IF w.ret THEN @ + 1 ELSE @,
                   !.files_added = IF w.ret /\ ~known THEN @ + 1 ELSE @,
                   !.files_updated = IF w.ret /\ known THEN @ + 1 ELSE @,
                   !.errors = IF w.ret THEN @
                              ELSE Append(@, Msg("Failed to index ",
                                                 Input(TRUE, filepath)))]]
    /\ UNCHANGED <<fs, dbfile, journal, now, last>>
    /\ UNCHANGED <<server, searched, txn, conns>>

\* one turn of the loop of lines 316-324: index_file reads the file, which
\* touches the file system only, and writes the failure row or runs the
\* ingest transaction; then the counters of refresh_index
IndexFile(p) ==
    /\ procs[p].pc = "index"
    /\ LET q == procs[p]
           filepath == q.files_to_process[q.i]
           w == index_file_write(documents, file_metadata, filepath,
                                 index_file_read(fs, filepath), now)
           known == filepath \in q.existing_files
           more == q.i < Len(q.files_to_process)
       IN /\ documents' = w.documents
          /\ file_metadata' = w.file_metadata
          /\ procs' = [procs EXCEPT ![p] =
                [q EXCEPT
                   !.pc = IF more THEN "index"
                          ELSE IF Truthy(q.specific_file) THEN "return"
                          ELSE "sweep",
                   !.i = q.i + 1,
                   !.files_processed = IF w.ret THEN @ + 1 ELSE @,
                   !.files_added = IF w.ret /\ ~known THEN @ + 1 ELSE @,
                   !.files_updated = IF w.ret /\ known THEN @ + 1 ELSE @,
                   !.errors = IF w.ret THEN @
                              ELSE Append(@, Msg("Failed to index ",
                                                 Input(TRUE, filepath)))]]
    /\ UNCHANGED <<fs, dbfile, journal, now, last>>
    /\ UNCHANGED <<server, searched, txn, conns>>

\* full refresh, line 327: remove_deleted_files in one transaction
Sweep(p) ==
    /\ procs[p].pc = "sweep"
    /\ LET swept == remove_deleted_files(documents, file_metadata,
                                         Range(procs[p].all_files))
       IN /\ documents' = swept.documents
          /\ file_metadata' = swept.file_metadata
          /\ procs' = [procs EXCEPT ![p].pc = "return",
                                    ![p].files_removed = swept.removed_count]
    /\ UNCHANGED <<fs, dbfile, journal, now, last>>
    /\ UNCHANGED <<server, searched, txn, conns>>

\* lines 331-334: the result is handed to the caller, who formats or logs it;
\* the store keeps no trace of it
Return(p) ==
    /\ procs[p].pc = "return"
    /\ procs' = [procs EXCEPT ![p] = IdleProc]
    /\ UNCHANGED <<fs, dbfile, journal, documents, file_metadata, now, last>>
    /\ UNCHANGED <<server, searched, txn, conns>>

\* the source directory changes between refreshes, not during one
Quiescent == \A p \in Procs : ~Running(p)

NextConc ==
    \/ \E f \in SourceFiles : \E st \in FileStates(f) :
          Quiescent /\ FsWrite(f, st)
    \/ \E f \in SourceFiles : Quiescent /\ FsDelete(f)
    \/ \E force \in BOOLEAN : StartFull("tool", force)
    \/ StartFull("periodic", FALSE)
    \/ \E specific_file \in SpecificInputs : StartSingle("tool", specific_file)
    \/ \E p \in Procs : Snapshot(p)
    \/ \E p \in Procs : IndexFile(p)
    \/ \E p \in Procs : Sweep(p)
    \/ \E p \in Procs : Return(p)

SpecConc == Init /\ [][NextConc]_vars

----------------------------------------------------------------------------
(* Refreshes that a store error aborts *)

\* the statement at is one that this refresh reaches
Reaches(specific_file, force, at) ==
    IF Truthy(specific_file)
    THEN /\ at = "lookup"
         /\ ~_validate_file_path(specific_file).raised
         /\ exists(fs, _validate_file_path(specific_file).path)
    ELSE \/ at = "changed" /\ ~force
         \/ at \in {"snapshot", "sweep"}

\* refresh_index(specific_file, force) on a sound store, where sqlite3
\* raises at one of the statements of the refresh
RefreshIndexAborted(specific_file, force, at, fault) ==
    /\ now < MaxClock
    /\ dbfile = "ok"
    /\ Reaches(specific_file, force, at)
    /\ now' = now + 1
    /\ LET o == refresh_index_aborted(fs, documents, file_metadata,
                                      specific_file, force, now', at, fault)
       IN /\ documents' = o.documents
          /\ file_metadata' = o.file_metadata
          /\ last' = [Call("refresh", specific_file, force, o.out.result,
                           Len(scan_directory(fs)), PrevOf(last), dbfile)
                        EXCEPT !.raised = o.out.raised,
                               !.at = at, !.fault = fault]
    /\ UNCHANGED <<fs, dbfile, journal, procs>>
    /\ UNCHANGED <<server, searched, txn, conns>>

\* the store error of the aborted refreshes: what sqlite3 raises for a
\* statement when the database file has been damaged since the last one
AbortFaults == {StoreError("DatabaseError", "database disk image is malformed")}

NextAbort ==
    \/ \E f \in SourceFiles : \E st \in FileStates(f) : FsWrite(f, st)
    \/ \E f \in SourceFiles : FsDelete(f)
    \/ Corrupt("malformed", {})
    \/ \E force \in BOOLEAN : RefreshIndex(NoneInput, force)
    \/ \E force \in BOOLEAN, at \in RefreshStatements, fault \in AbortFaults :
          RefreshIndexAborted(NoneInput, force, at, fault)
    \/ \E specific_file \in SpecificInputs, fault \in AbortFaults :
          RefreshIndexAborted(specific_file, FALSE, "lookup", fault)

SpecAbort == Init /\ [][NextAbort]_vars

----------------------------------------------------------------------------
(* The scopes that hold a connection, statement by statement *)

rest_vars ==
    <<fs, dbfile, journal, documents, file_metadata, now, last, procs, server,
      searched, txn>>

\* an operation reaches its scope: conn = None, then the try
ScopeEnter(op) ==
    /\ conns.pc = "idle"
    /\ conns' = [NoScope EXCEPT !.op = op, !.pc = "try",
                                !.open = conns.open]
    /\ UNCHANGED rest_vars

\* sqlite3.connect returns a connection, or raises
ScopeConnect(ok) ==
    /\ conns.pc = "try"
    /\ conns' = IF ok
                THEN [conns EXCEPT !.pc = "body", !.conn = TRUE,
                                   !.open = @ + 1]
                ELSE [conns EXCEPT !.pc = "except",
                                   !.exc = "OperationalError"]
    /\ UNCHANGED rest_vars

\* the statements that use the connection
ScopeBody(exit) ==
    /\ conns.pc = "body"
    /\ exit \in BodyExits(conns.op)
    /\ conns' = IF exit \in ScopeExceptions
                THEN [conns EXCEPT !.pc = "except", !.exc = exit]
                ELSE [conns EXCEPT !.pc = "finally"]
    /\ UNCHANGED rest_vars

\* the except clauses
ScopeExcept ==
    /\ conns.pc = "except"
    /\ conns' = [conns EXCEPT
                   !.pc = "finally",
                   !.exc = scope_except(ScopeOf(conns.op), conns.exc)]
    /\ UNCHANGED rest_vars

\* the finally clause, after which the scope is left
ScopeFinally ==
    /\ conns.pc = "finally"
    /\ conns' = scope_finally(conns)
    /\ UNCHANGED rest_vars

NextScope ==
    \/ \E op \in Operations : ScopeEnter(op)
    \/ \E ok \in BOOLEAN : ScopeConnect(ok)
    \/ \E exit \in {"end", "return"} \cup ScopeExceptions : ScopeBody(exit)
    \/ ScopeExcept
    \/ ScopeFinally

SpecScope == Init /\ [][NextScope]_vars

----------------------------------------------------------------------------
(* The server: tools, initialization, shutdown and the scanner tasks, as   *)
(* the coroutines of one event loop; a coroutine runs from one await to    *)
(* the next without interruption                                           *)

store_vars ==
    <<fs, dbfile, journal, documents, file_metadata, now, last, procs, searched,
      txn, conns>>

\* initialize_server() is called explicitly
InitializeServer(env) ==
    /\ env = "ok" => Len(server.tasks) < MaxTasks
    /\ LET r == initialize_server(server, env)
       IN server' = [r.srv EXCEPT
                       !.op = "initialize_server", !.scanner = 0,
                       !.out = IF r.raised = None THEN Returns(<<>>)
                               ELSE Raises(r.raised),
                       !.accessed = r.accessed]
    /\ UNCHANGED store_vars

\* a tool is called
CallTool(op, env, outcome) ==
    /\ (env = "ok" /\ ~server._test_mode /\ ~server._initialized)
          => Len(server.tasks) < MaxTasks
    /\ LET r == Tool(op, server, env, outcome)
       IN server' = [r.srv EXCEPT !.op = op, !.scanner = 0, !.out = r.out,
                                  !.accessed = r.accessed]
    /\ UNCHANGED store_vars

\* shutdown() up to its await, or to its end when there is nothing to cancel
Shutdown ==
    /\ server.awaiting = 0
    /\ LET bt == server.background_task
       IN IF bt # 0 /\ ~TaskDone(server.tasks[bt])
          THEN server' = [server EXCEPT
                            !.tasks[bt] =
                                IF @ \in {"scheduled", "cancel_scheduled"}
                                THEN "cancel_scheduled"
                                ELSE "cancel_sleeping",
                            !.awaiting = bt,
                            !.op = "shutdown", !.scanner = 0,
                            !.out = Returns(<<>>),
                            !.accessed = FALSE, !.shut = TRUE]
          ELSE server' = [server EXCEPT
                            !.op = "shutdown", !.scanner = 0,
                            !.out = Returns(<<>>),
                            !.accessed = FALSE, !.shut = TRUE]
    /\ UNCHANGED store_vars

\* shutdown() resumes when the task it awaits is done
ShutdownReturn ==
    /\ server.awaiting # 0
    /\ TaskDone(server.tasks[server.awaiting])
    /\ server' = [server EXCEPT
                    !.awaiting = 0,
                    !.op = "shutdown_return", !.scanner = 0,
                    !.out = shutdown_await(server.tasks[server.awaiting]),
                    !.accessed = FALSE]
    /\ UNCHANGED store_vars

\* periodic_scan runs up to its first asyncio.sleep
ScannerStart(t) ==
    /\ server.tasks[t] = "scheduled"
    /\ server' = [server EXCEPT !.tasks[t] = "sleeping",
                                !.op = "periodic_scan_start", !.scanner = t,
                                !.out = Returns(<<>>), !.accessed = FALSE]
    /\ UNCHANGED store_vars

\* a loop whose except clause ends the task
ScannerWake_break(t, outcome) ==
    /\ server.tasks[t] = "sleeping"
    /\ server' = [server EXCEPT
                    !.tasks[t] = IF outcome = "raises" THEN "done" ELSE @,
                    !.op = "periodic_scan", !.scanner = t,
                    !.out = periodic_scan_turn(outcome), !.accessed = TRUE]
    /\ UNCHANGED store_vars

\* the sleep of periodic_scan ends: one refresh, then the next sleep
ScannerWake(t, outcome) ==
    /\ server.tasks[t] = "sleeping"
    /\ server' = [server EXCEPT !.op = "periodic_scan", !.scanner = t,
                                !.out = periodic_scan_turn(outcome),
                                !.accessed = TRUE]
    /\ UNCHANGED store_vars

\* the event loop delivers the cancellation: a task that never ran is
\* cancelled, a task in its sleep catches CancelledError and breaks
ScannerCancelled(t) ==
    /\ server.tasks[t] \in {"cancel_scheduled", "cancel_sleeping"}
    /\ server' = [server EXCEPT
                    !.tasks[t] = IF @ = "cancel_scheduled" THEN "cancelled"
                                 ELSE "done",
                    !.op = "periodic_scan_cancelled", !.scanner = t,
                    !.out = Returns(<<>>), !.accessed = FALSE]
    /\ UNCHANGED store_vars

\* a test sets _test_mode or unsets a component of the module
SetTestMode ==
    /\ ~server._test_mode
    /\ server' = [server EXCEPT !._test_mode = TRUE, !.op = "test",
                                !.scanner = 0,
                                !.out = Returns(<<>>), !.accessed = FALSE]
    /\ UNCHANGED store_vars

UnsetComponent(c) ==
    /\ server[c]
    /\ server' = [server EXCEPT ![c] = FALSE, !.op = "test", !.scanner = 0,
                                !.out = Returns(<<>>), !.accessed = FALSE]
    /\ UNCHANGED store_vars

\* the environment counts for a tool only when its guard initializes
ToolEnvs ==
    IF ~server._test_mode /\ ~server._initialized THEN InitEnvs ELSE {"ok"}

NextServer ==
    \/ \E env \in InitEnvs : InitializeServer(env)
    \/ \E op \in Tools, env \in ToolEnvs, outcome \in Outcomes :
          CallTool(op, env, outcome)
    \/ Shutdown
    \/ ShutdownReturn
    \/ \E t \in 1..Len(server.tasks) : ScannerStart(t)
    \/ \E t \in 1..Len(server.tasks), outcome \in Outcomes :
          ScannerWake(t, outcome)
    \/ \E t \in 1..Len(server.tasks) : ScannerCancelled(t)
    \/ SetTestMode
    \/ \E c \in {"indexer", "search_engine", "db"} : UnsetComponent(c)

SpecServer == Init /\ [][NextServer]_vars

\* what the event loop runs of task t when it is ready: its start, the
\* turn after a sleep that has elapsed, the delivery of a cancellation
ScannerStep(t) ==
    /\ t <= Len(server.tasks)
    /\ \/ ScannerStart(t)
       \/ \E outcome \in Outcomes : ScannerWake(t, outcome)
       \/ ScannerCancelled(t)

\* the server under an event loop that keeps running: a task that is ready
\* is run, a sleep ends
SpecScanner ==
    SpecServer /\ \A t \in 1..MaxTasks : WF_vars(ScannerStep(t))

----------------------------------------------------------------------------
(* Searches: every call of SearchEngine.search over the two source files   *)
(* indexed by a full refresh, and over the same store damaged              *)

\* the store after the full refresh of two text files
InitSearch ==
    /\ fs = [f \in Files |-> [size |-> 1, mtime |-> 1, data |-> "text"]]
    /\ \E db \in {"ok", "malformed"} :
         LET o == refresh_index(fs, "ok", NoDocuments, {}, NoneInput, FALSE, 1)
         IN /\ dbfile = db
            /\ documents = IF db = "ok" THEN o.documents ELSE NoDocuments
            /\ file_metadata = IF db = "ok" THEN o.file_metadata ELSE {}
    /\ journal = {}
    /\ now = 1
    /\ last = OtherCall("init")
    /\ procs = [p \in Procs |-> IdleProc]
    /\ server = ServerStart
    /\ txn = NoTxn
    /\ conns = NoScope
    /\ searched \in {SearchCall(query, limit, rank, fault) :
                        query \in Queries, limit \in (0 - 1)..MaxLimit,
                        rank \in Ranks, fault \in SearchFaults}

\* SearchEngine.search(query, limit) runs
Search ==
    /\ searched.pc = "call"
    /\ LET out == search(dbfile, documents, searched.query, searched.limit,
                         searched.rank, searched.fault)
       IN searched' = [searched EXCEPT
                         !.pc = "return",
                         !.out = out,
                         !.cause = IF searched.fault = NoError
                                   THEN sqlite_error(dbfile)
                                   ELSE searched.fault]
    /\ UNCHANGED <<fs, dbfile, journal, documents, file_metadata, now, last>>
    /\ UNCHANGED <<procs, server, txn, conns>>

NextSearch == Search

SpecSearch == InitSearch /\ [][NextSearch]_vars

----------------------------------------------------------------------------
(* Ingests whose transaction runs one statement at a time, seen by the     *)
(* readers of the committed tables                                         *)

\* index_file(filepath) has read a text file and opens its connection
TxnBegin(filepath) ==
    /\ now < MaxClock
    /\ txn.state # "open"
    /\ TablesUsable(dbfile)
    /\ index_file_read(fs, filepath).kind = "ok"
    /\ now' = now + 1
    /\ txn' = [state |-> "open", filepath |-> filepath, pc |-> 1, t |-> now',
               rd |-> index_file_read(fs, filepath),
               view |-> View(documents, file_metadata),
               old |-> View(documents, file_metadata)]
    /\ UNCHANGED <<fs, dbfile, journal, documents, file_metadata, last>>
    /\ UNCHANGED <<procs, server, searched, conns>>

\* the next statement of the transaction runs
TxnStatement ==
    /\ txn.state = "open"
    /\ LET r == ExecuteStatement(index_file_statements[txn.pc], txn.view,
                                 View(documents, file_metadata),
                                 txn.filepath, txn.rd, txn.t)
       IN /\ ~r.raised
          /\ documents' = r.committed.documents
          /\ file_metadata' = r.committed.file_metadata
          /\ txn' = [txn EXCEPT
                       !.view = r.view,
                       !.pc = @ + 1,
                       !.state = IF txn.pc = Len(index_file_statements)
                                 THEN "committed" ELSE "open"]
    /\ UNCHANGED <<fs, dbfile, journal, now, last>>
    /\ UNCHANGED <<procs, server, searched, conns>>

\* the next statement raises: get_connection closes the connection, what
\* was not committed is rolled back, index_file returns False
TxnFail ==
    /\ txn.state = "open"
    /\ txn' = [txn EXCEPT !.state = "failed",
                          !.view = View(documents, file_metadata)]
    /\ UNCHANGED <<fs, dbfile, journal, documents, file_metadata, now, last>>
    /\ UNCHANGED <<procs, server, searched, conns>>

NextTxn ==
    \/ \E f \in SourceFiles : \E st \in FileStates(f) : FsWrite(f, st)
    \/ \E f \in SourceFiles : TxnBegin(f)
    \/ TxnStatement
    \/ TxnFail

SpecTxn == Init /\ [][NextTxn]_vars

TypeOK ==
    /\ \A f \in Files : fs[f] \in FileStates(f) \cup {NoFile}
    /\ dbfile \in DbStates
    /\ journal \subseteq {"wal", "shm"}
    /\ now \in 0..MaxClock

----------------------------------------------------------------------------
(* Vocabulary of the properties *)

\* the call that has just returned, seen from the step that made it
RefreshStep == now' = now + 1 /\ last'.op = "refresh"
FullRefreshStep == RefreshStep /\ IsFullRefresh(last')
SingleRefreshStep == RefreshStep /\ ~IsFullRefresh(last')

RowsOf(meta, path) == {r \in meta : r.path = path}
HasDocument(docs, path) == docs[path] # <<>>
Indexed(docs) == {p \in Files : HasDocument(docs, p)}

\* a file in the source tree with an allowed extension, a size within the
\* limit and passing text detection
Eligible(disk, f) ==
    /\ disk[f] # NoFile
    /\ f[1] = R /\ f[2] = S
    /\ suffix(f) \in {EXT_TXT, EXT_MD}
    /\ disk[f].size <= max_file_size_mb
    /\ disk[f].data # "binary"

\* exactly one documents row and one file_metadata row, without an error
CleanlyIndexed(docs, meta, f) ==
    /\ Len(docs[f]) = 1
    /\ Cardinality(RowsOf(meta, f)) = 1
    /\ \A r \in RowsOf(meta, f) : r.error = None

----------------------------------------------------------------------------
(* C1 *)

\* C1: in every reachable store state, every path with a documents row has
\* a file_metadata row for the same path whose error is absent.
C1_DocumentHasCleanMetadata ==
    \A p \in Files :
        HasDocument(documents, p) =>
            \E r \in file_metadata : r.path = p /\ r.error = None

----------------------------------------------------------------------------
(* C2 *)

\* C2: a healthy store is never destroyed: constructing the store over a
\* database file that passes validation leaves the rows intact, and
\* rebuild_if_corrupted on a store that passes the integrity check returns
\* true without changing a row.
C2_HealthyStoreKept ==
    [][ /\ (now' = now + 1 /\ last'.op = "construct"
                /\ dbfile # "absent" /\ _validate_existing_database(dbfile))
           => UNCHANGED <<documents, file_metadata>>
        /\ (now' = now + 1 /\ last'.op = "rebuild" /\ check_integrity(dbfile))
           => (last'.result.success /\ UNCHANGED <<documents, file_metadata>>)
      ]_vars

----------------------------------------------------------------------------
(* C3 *)

----------------------------------------------------------------------------
(* C5 *)

\* C5: every path written to documents or file_metadata is an absolute,
\* resolved path inside the source root, whatever specific_path a
\* single-file refresh is given.
C5_StoredPathsInsideRoot ==
    \A p \in Files :
        (HasDocument(documents, p) \/ RowsOf(file_metadata, p) # {})
            => IsUnder(p, source_path)

----------------------------------------------------------------------------
(* C6 *)

\* the absolute, resolved form of a specific_path
Resolved(specific_file) ==
    resolve(IF specific_file.abs THEN specific_file.comps
            ELSE source_path \o specific_file.comps)

\* C6: a refresh with a specific_path whose resolved form is not under the
\* source root returns success=false, all counters zero and the one error
\* "Path outside source directory: <input>", and leaves both tables
\* unchanged.
C6_OutsidePathRejected ==
    [][ (SingleRefreshStep
            /\ ~IsUnder(Resolved(last'.specific_file), source_path))
        => /\ last'.result =
                _create_result(FALSE, 0, 0, 0, 0,
                    <<Msg("Path outside source directory: ",
                          last'.specific_file)>>)
           /\ UNCHANGED <<documents, file_metadata>>
      ]_vars

----------------------------------------------------------------------------
(* C7 *)

\* C7: a file_metadata row is without a documents row if and only if its
\* error is present.
C7_MetadataWithoutDocumentIffError ==
    \A r \in file_metadata :
        ~HasDocument(documents, r.path) <=> r.error # None

----------------------------------------------------------------------------
(* C8 *)

\* C8: with no file change in between, a non-forced full refresh that
\* follows a full refresh leaves every documents and file_metadata row
\* unchanged, whatever the first refresh returned.
C8_SecondRefreshIsNoOp ==
    [][ (FullRefreshStep /\ ~last'.force /\ IsFullRefresh(last))
        => UNCHANGED <<documents, file_metadata>>
      ]_vars

\* a second refresh after a refresh that reported a per-file error and left
\* a failure row and a document behind
C8_Witness ==
    /\ IsFullRefresh(last) /\ ~last.force
    /\ last.prev.full /\ ~last.prev.success
    /\ \E r \in file_metadata : r.error # None
    /\ Indexed(documents) # {}

----------------------------------------------------------------------------
(* C9 *)

\* C9: a non-forced full refresh run right after a full refresh that
\* returned success=true, with no file change in between, returns
\* files_processed = files_added = files_updated = files_removed = 0.
C9_NothingToDoAfterSuccess ==
    (IsFullRefresh(last) /\ ~last.force /\ last.prev.full /\ last.prev.success)
    => /\ last.result.files_processed = 0
       /\ last.result.files_removed = 0
       /\ last.result.files_added = 0
       /\ last.result.files_updated = 0

\* the second refresh of a store that holds two documents
C9_Witness ==
    /\ IsFullRefresh(last) /\ ~last.force
    /\ last.prev.full /\ last.prev.success
    /\ last.result.success
    /\ Cardinality(Indexed(documents)) = 2

----------------------------------------------------------------------------
(* C10 *)

----------------------------------------------------------------------------
(* C11 *)

\* the refresh that has just returned tried to ingest the file: it wrote a
\* file_metadata row for it at the time of the call, or it reported the file
\* as failed
Attempted(meta, call, t, f) ==
    \/ \E r \in meta : r.path = f /\ r.last_indexed = t
    \/ \E i \in 1..Len(call.result.errors) :
          call.result.errors[i] = Msg("Failed to index ", Input(TRUE, f))

\* the stored (size, mtime) pair of a path differs from the pair on disk, or
\* there is no stored pair
PairDiffers(disk, meta, f) ==
    \/ RowsOf(meta, f) = {}
    \/ \E r \in RowsOf(meta, f) :
          r.size # disk[f].size \/ r.mtime # disk[f].mtime

\* C11: a non-forced full refresh (on a store that answers) tries to ingest a
\* scanned file if and only if file_metadata has no row for its path or the
\* stored (size, mtime) pair differs from the current one; a scanned file
\* with an unchanged pair keeps its rows as they are, whether its row is a
\* success row or a failure row.
C11_IngestIffPairDiffers ==
    [][ (FullRefreshStep /\ ~last'.force /\ TablesUsable(dbfile)) =>
            \A f \in Range(scan_directory(fs)) :
                /\ Attempted(file_metadata', last', now', f)
                        <=> PairDiffers(fs, file_metadata, f)
                /\ ~PairDiffers(fs, file_metadata, f) =>
                        /\ documents'[f] = documents[f]
                        /\ RowsOf(file_metadata', f) = RowsOf(file_metadata, f)
      ]_vars

\* a non-forced full refresh has ingested FileB and has skipped FileA, whose
\* row is a failure row written by an earlier call
C11_Witness ==
    /\ IsFullRefresh(last) /\ ~last.force
    /\ \E r \in RowsOf(file_metadata, FileB) : r.last_indexed = now
    /\ \E r \in RowsOf(file_metadata, FileA) :
          /\ r.error # None /\ r.last_indexed < now
          /\ r.size = fs[FileA].size /\ r.mtime = fs[FileA].mtime
    /\ FileA \in Range(scan_directory(fs))

----------------------------------------------------------------------------
(* C12 *)

\* the paths that have a row in one of the two tables
Stored(docs, meta) == Indexed(docs) \cup MetadataPaths(meta)

\* C12: after a full refresh that runs to its end, no documents row and no
\* file_metadata row exists for a path outside the set of files scanned by
\* that refresh, and files_removed is the number of stored paths whose rows
\* the call deleted.
C12_OnlyScannedPathsStored ==
    [][ (FullRefreshStep /\ TablesUsable(dbfile)) =>
            /\ Stored(documents', file_metadata')
                    \subseteq Range(scan_directory(fs))
            /\ last'.result.files_removed =
                    Cardinality(Stored(documents, file_metadata)
                                    \ Stored(documents', file_metadata'))
      ]_vars

\* a full refresh has swept a path and has kept another
C12_Witness ==
    /\ IsFullRefresh(last)
    /\ last.result.files_removed >= 1
    /\ Indexed(documents) # {}

----------------------------------------------------------------------------
(* C13 *)

\* the paths whose rows a step has deleted
Deleted == Stored(documents, file_metadata) \ Stored(documents', file_metadata')

----------------------------------------------------------------------------
(* C14 *)

\* C14: once a full refresh has completed on a source tree that has stopped
\* changing, every documents row belongs to a file that exists on disk and
\* whose current (size, mtime) pair is the pair of its file_metadata row.
\* (last is a full refresh only as long as no file has changed since.)
C14_ConsistentAfterFullRefresh ==
    (IsFullRefresh(last) /\ last.db = "ok") =>
        \A p \in Files :
            HasDocument(documents, p) =>
                /\ fs[p] # NoFile
                /\ \E r \in RowsOf(file_metadata, p) :
                      r.size = fs[p].size /\ r.mtime = fs[p].mtime

----------------------------------------------------------------------------
(* C15 *)

\* C15: every RefreshResult that refresh_index returns (full, forced,
\* single-file, rejected path, missing file, aborted by an exception) has
\* files_processed = files_added + files_updated.
C15_ProcessedIsAddedPlusUpdated ==
    last.op = "refresh" =>
        last.result.files_processed =
            last.result.files_added + last.result.files_updated

\* a full refresh has added one file and updated another
C15_Witness ==
    /\ IsFullRefresh(last)
    /\ last.result.files_added = 1
    /\ last.result.files_updated = 1
    /\ last.result.files_processed = 2

----------------------------------------------------------------------------
(* C16 *)

\* C16: every RefreshResult that refresh_index returns has success = true if
\* and only if its errors list is empty.
C16_SuccessIffNoErrors ==
    last.op = "refresh" =>
        (last.result.success <=> last.result.errors = <<>>)

\* a full refresh has ingested one file and has failed on the other
C16_Witness ==
    /\ IsFullRefresh(last)
    /\ ~last.result.success
    /\ last.result.files_processed = 1
    /\ Len(last.result.errors) = 1

----------------------------------------------------------------------------
(* C17 *)

\* the ingest of the call that has just returned has succeeded for the path:
\* it has written a success row at the time of the call
IngestSucceeded(meta, t, path) ==
    \E r \in meta : r.path = path /\ r.error = None /\ r.last_indexed = t

\* C17: a single-file refresh of an existing file inside the source root
\* whose ingest succeeds returns success=true, files_processed = 1,
\* files_removed = 0 and files_added = 1 when file_metadata had no row for
\* the path, files_updated = 1 when it had one; when the file does not
\* exist it returns success=false, all counters zero and the one error
\* "File not found: <path>", and leaves the store unchanged.
C17_SingleFileResult ==
    [][ (SingleRefreshStep
            /\ IsUnder(Resolved(last'.specific_file), source_path)) =>
        LET path == Resolved(last'.specific_file)
            known == RowsOf(file_metadata, path) # {}
        IN /\ (exists(fs, path) /\ IngestSucceeded(file_metadata', now', path))
                => last'.result =
                      _create_result(TRUE, 1, IF known THEN 0 ELSE 1,
                                     IF known THEN 1 ELSE 0, 0, <<>>)
           /\ ~exists(fs, path)
                => /\ last'.result =
                        _create_result(FALSE, 0, 0, 0, 0,
                            <<Msg("File not found: ", Input(TRUE, path))>>)
                   /\ UNCHANGED <<dbfile, journal, documents, file_metadata>>
      ]_vars

\* a single-file refresh has updated a file that had a row
C17_Witness ==
    /\ last.op = "refresh" /\ Truthy(last.specific_file)
    /\ last.result.success
    /\ last.result.files_updated = 1

\* a single-file refresh has found no file under a path inside the root
C17_WitnessMissing ==
    /\ last.op = "refresh" /\ Truthy(last.specific_file)
    /\ IsUnder(Resolved(last.specific_file), source_path)
    /\ Len(last.result.errors) = 1
    /\ last.result.errors[1].text = "File not found: "

----------------------------------------------------------------------------
(* C18 *)

\* the construction of the store or rebuild_if_corrupted has just returned
ConstructStep == now' = now + 1 /\ last'.op = "construct"
RebuildStep == now' = now + 1 /\ last'.op = "rebuild"

\* the store is fresh, valid and empty: it has the schema, no row, and
\* passes the integrity check
FreshStore(db, docs, meta) ==
    /\ TablesUsable(db)
    /\ docs = NoDocuments
    /\ meta = {}
    /\ check_integrity(db)

C18_WitnessConstruct ==
    /\ last.op = "construct"
    /\ last.db = "badheader"
    /\ FreshStore(dbfile, documents, file_metadata)

----------------------------------------------------------------------------
(* C19 *)

\* C19: every destroy-and-recreate of the store, the construction over an
\* existing database file and the rebuild of rebuild_if_corrupted after a
\* failed integrity check, removes the main database, the -wal and the -shm
\* file together: none of them is on disk when the new database is created.
C19_AllFilesRemovedTogether ==
    [][ ((ConstructStep /\ dbfile # "absent")
            \/ (RebuildStep /\ ~check_integrity(dbfile)))
        => last'.found = {}
      ]_vars

\* a store with a -wal and a -shm file beside a damaged main file has been
\* rebuilt
C19_Witness ==
    /\ last.op \in {"construct", "rebuild"}
    /\ last.db \in {"small", "badheader", "malformed"}
    /\ last.before = {"main", "wal", "shm"}
    /\ last.found = {}
    /\ dbfile = "ok"

----------------------------------------------------------------------------
(* C20 *)

\* C20: every store error raised at the opening of a scoped connection or
\* by a statement inside the scope, an operational error with the message
\* "file is not a database" or "database disk image is malformed" among
\* them, leaves the scope as IndexCorruptionError and never as an exception
\* of the store.
C20_StoreErrorsTranslated ==
    (last.op = "statement" /\ last.raised.cause # NoError) =>
        /\ last.raised.type = "IndexCorruptionError"
        /\ ~IsInstance(last.raised.type, "Error")

\* an operational error "file is not a database" has been translated
C20_Witness ==
    /\ last.op = "statement"
    /\ last.raised.cause =
          StoreError("OperationalError", "file is not a database")
    /\ last.raised.type = "IndexCorruptionError"
    /\ last.raised.text = "Database error: file is not a database"

\* an error of the store that is not a DatabaseError has been translated
C20_WitnessOther ==
    /\ last.op = "statement"
    /\ last.raised.cause.type = "InterfaceError"
    /\ last.raised.type = "IndexCorruptionError"

----------------------------------------------------------------------------
(* C21 *)

\* a returned string that reports an error: its text begins with "Error"
IsErrorReport(value) == value # <<>> /\ value[1] \in {"Error", "Error:"}

\* C21: every call of a tool (search, get_index_stats, refresh_index)
\* returns a string and never raises to its caller, also when the lazy
\* initialization fails; an exceptional condition is reported as a string
\* with the prefix "Error: ".
C21_ToolsNeverRaise ==
    server.op \in Tools =>
        /\ server.out.raised = None
        /\ IsErrorReport(server.out.value)
              => StartsWith(server.out.value, ErrorPrefix)

----------------------------------------------------------------------------
(* C22 *)

\* the scanner tasks that are not done
LiveTasks(srv) == {t \in 1..Len(srv.tasks) : ~TaskDone(srv.tasks[t])}

\* C22: at most one periodic scanner task exists at any time, over every
\* sequence of initialize_server calls, tool calls and shutdown.
C22_AtMostOneScanner == Cardinality(LiveTasks(server)) <= 1

----------------------------------------------------------------------------
(* C23 *)

\* C23: once shutdown has been called no periodic refresh runs any more,
\* the task that shutdown awaits is done when shutdown returns, and
\* shutdown returns without raising, also when there is no task to cancel.
C23_ShutdownStopsScanner ==
    /\ (server.op = "periodic_scan") => ~server.shut
    /\ (server.op \in {"shutdown", "shutdown_return"})
          => server.out.raised = None
    /\ (server.op = "shutdown" /\ server.awaiting = 0
            /\ server.background_task # 0)
          => TaskDone(server.tasks[server.background_task])

----------------------------------------------------------------------------
(* C27 *)

\* a tool has just been called
ToolStep == server'.op \in Tools /\ server' # server

\* the component that the tool needs is unset
Absent(srv, op) ==
    CASE op = "search" -> ~srv.search_engine
      [] op = "get_index_stats" -> ~srv.search_engine \/ ~srv.db
      [] OTHER -> ~srv.indexer

----------------------------------------------------------------------------
(* C24 *)

\* the search under study has returned; its statement has run
Searched == searched.pc = "return"
StatementRan == Searched /\ strip(searched.query) # <<>>

\* C24: SearchEngine.search never raises: for every query string and every
\* state of the store it returns a list, and the list is empty when the
\* query is empty after stripping, when the full-text engine rejects the
\* query, and when a store error occurs.
C24_SearchNeverRaises ==
    Searched =>
        /\ searched.out.raised = None
        /\ strip(searched.query) = <<>> => searched.out.results = <<>>
        /\ (StatementRan /\ searched.cause # NoError)
              => searched.out.results = <<>>

\* the full-text engine has rejected the expression of a search
C24_Witness ==
    /\ StatementRan
    /\ searched.cause = SyntaxError
    /\ searched.out = [raised |-> None, results |-> <<>>,
                       escaped |-> _escape_fts_query(searched.query)]

\* a search over a damaged database file has returned the empty list
C24_WitnessStore ==
    /\ StatementRan
    /\ dbfile = "malformed"
    /\ searched.fault = NoError
    /\ searched.out.raised = None
    /\ searched.out.results = <<>>

\* a search has returned two results
C24_WitnessResults ==
    /\ StatementRan
    /\ Len(searched.out.results) = 2

----------------------------------------------------------------------------
(* C25 *)

RECURSIVE QuotesDoubled(_)
QuotesDoubled(s) ==
    IF s = <<>> THEN TRUE
    ELSE IF Head(s) # QUOTE THEN QuotesDoubled(Tail(s))
    ELSE /\ Len(s) >= 2
         /\ s[2] = QUOTE
         /\ QuotesDoubled(SubSeq(s, 3, Len(s)))

\* one well-formed double-quoted phrase: every double quote between the
\* outer two is doubled
IsPhrase(s) ==
    /\ Len(s) >= 2
    /\ s[1] = QUOTE /\ s[Len(s)] = QUOTE
    /\ QuotesDoubled(SubSeq(s, 2, Len(s) - 1))

\* none of the characters " ' - * : . ( ) and none of AND, OR, NOT
FreeOfSyntax(s) ==
    \A x \in {<<QUOTE>>, <<"'">>, <<"-">>, <<"*">>, <<":">>, <<".">>, <<"(">>,
              <<")">>, <<"A", "N", "D">>, <<"O", "R">>, <<"N", "O", "T">>} :
        ~In(x, s)

\* C25: for every user query, the string handed to the full-text MATCH is
\* either one well-formed double-quoted phrase, with its internal double
\* quotes doubled, or free of the characters " ' - * : . ( ) and of the
\* operators AND, OR, NOT.
C25_MatchExpressionIsInert ==
    StatementRan =>
        \/ IsPhrase(searched.out.escaped)
        \/ FreeOfSyntax(searched.out.escaped)

----------------------------------------------------------------------------
(* C26 *)

\* C26: for every query and every integer limit, search returns at most
\* limit results (none for a limit below one), every result has a score
\* >= 0, and the results are in the order of non-increasing score.
C26_LimitedAndRanked ==
    Searched =>
        LET results == searched.out.results
        IN /\ Len(results) <= (IF searched.limit < 0 THEN 0 ELSE searched.limit)
           /\ \A i \in 1..Len(results) : results[i].score >= 0
           /\ \A i, j \in 1..Len(results) :
                 i < j => results[i].score >= results[j].score

----------------------------------------------------------------------------
(* C28 *)

\* the rows of a path as a reader of the committed tables sees them
RowsSeen(docs, meta, path) ==
    [documents |-> docs[path], file_metadata |-> RowsOf(meta, path)]

\* the rows of the path before the ingest and the rows that the ingest
\* writes
OldRows == RowsSeen(txn.old.documents, txn.old.file_metadata, txn.filepath)
NewRows ==
    LET o == index_file_transaction(txn.old.documents, txn.old.file_metadata,
                                    txn.filepath, txn.rd, txn.t)
    IN RowsSeen(o.documents, o.file_metadata, txn.filepath)

\* C28: ingest replaces the rows of a path atomically: a reader of the
\* store sees both old rows while the transaction runs and both new rows
\* once it has committed, never the path without its document in between,
\* and the rows of the path are unchanged when the transaction fails before
\* its commit.
C28_IngestIsAtomic ==
    LET seen == RowsSeen(documents, file_metadata, txn.filepath)
    IN /\ txn.state = "open" => seen = OldRows
       /\ txn.state = "committed" => seen = NewRows
       /\ txn.state = "failed" => seen = OldRows

\* the transaction has deleted the document of an indexed path on its
\* connection and has not committed yet
C28_Witness ==
    /\ txn.state = "open"
    /\ txn.pc = 3
    /\ Len(documents[txn.filepath]) = 1
    /\ txn.view.documents[txn.filepath] = <<>>

\* the transaction over an indexed path has failed after its deletes
C28_WitnessFailed ==
    /\ txn.state = "failed"
    /\ txn.pc >= 3
    /\ Len(documents[txn.filepath]) = 1

\* the transaction has replaced the rows of an indexed path
C28_WitnessCommitted ==
    /\ txn.state = "committed"
    /\ Len(txn.old.documents[txn.filepath]) = 1
    /\ RowsSeen(documents, file_metadata, txn.filepath) # OldRows

----------------------------------------------------------------------------
(* C29 *)

\* the refresh that has just returned has called index_file on the file: a
\* single-file refresh on its validated, existing path, a full refresh on
\* the scanned files that it takes as changed
Ingested(f) ==
    /\ RefreshStep
    /\ TablesUsable(dbfile)
    /\ IF IsFullRefresh(last')
       THEN /\ f \in Range(scan_directory(fs))
            /\ last'.force \/ PairDiffers(fs, file_metadata, f)
       ELSE /\ ~_validate_file_path(last'.specific_file).raised
            /\ _validate_file_path(last'.specific_file).path = f
            /\ exists(fs, f)

\* the refresh reports that the ingest of the file returned false
ReportedFailed(call, f) ==
    \E i \in 1..Len(call.result.errors) :
        call.result.errors[i] = Msg("Failed to index ", Input(TRUE, f))

\* C29: when the ingest of a path fails at encoding detection or at the
\* read of the content, it returns false and the path has afterwards one
\* file_metadata row, with encoding absent, the error set, and the size and
\* mtime of the file as read at that ingest, whatever row it had before.
C29_FailureRowReplacesMetadata ==
    [][ RefreshStep => \A f \in Files :
            (Ingested(f) /\ index_file_read(fs, f).kind = "error") =>
                /\ ReportedFailed(last', f)
                /\ RowsOf(file_metadata', f) =
                      {MetaRow(f, fs[f].size, fs[f].mtime, now', None,
                               index_file_read(fs, f).error)}
                /\ index_file_read(fs, f).error # None
      ]_vars

\* the read of a file that was indexed before has failed: its failure row
\* has replaced the row of the earlier ingest
C29_Witness ==
    /\ last.op = "refresh"
    /\ ReportedFailed(last, FileA)
    /\ HasDocument(documents, FileA)
    /\ \E r \in file_metadata :
          /\ r.path = FileA /\ r.error # None /\ r.encoding = None
          /\ r.last_indexed = now
          /\ r.size = fs[FileA].size /\ r.mtime = fs[FileA].mtime

----------------------------------------------------------------------------
(* C30 *)

\* C30: the ingest of a file that fails text classification returns false
\* and leaves the documents and file_metadata rows of the path as they
\* are: no document is written and no error row is recorded; a single-file
\* refresh of such a file leaves both tables unchanged.
C30_NonTextLeavesStoreUnchanged ==
    [][ RefreshStep => \A f \in Files :
            (Ingested(f) /\ ~is_text_file(fs, f)) =>
                /\ ReportedFailed(last', f)
                /\ documents'[f] = documents[f]
                /\ RowsOf(file_metadata', f) = RowsOf(file_metadata, f)
                /\ ~IsFullRefresh(last')
                      => UNCHANGED <<documents, file_metadata>>
      ]_vars

\* a single-file refresh of a binary file without any row has failed and
\* has left no row
C30_Witness ==
    /\ last.op = "refresh" /\ Truthy(last.specific_file)
    /\ fs[FileA] # NoFile /\ fs[FileA].data = "binary"
    /\ ReportedFailed(last, FileA)
    /\ RowsOf(file_metadata, FileA) = {}
    /\ ~HasDocument(documents, FileA)

\* a full refresh has skipped a binary file that has the rows of an earlier
\* ingest
C30_WitnessFull ==
    /\ IsFullRefresh(last)
    /\ fs[FileA] # NoFile /\ fs[FileA].data = "binary"
    /\ ReportedFailed(last, FileA)
    /\ HasDocument(documents, FileA)

----------------------------------------------------------------------------
(* C31 *)

\* the work set of a full refresh: the scanned files, or the changed ones
WorkSet(disk, meta, force) ==
    IF force THEN Range(scan_directory(disk))
    ELSE Range(get_changed_files(disk, meta, scan_directory(disk)))

\* the files of the work set whose ingest returns false on a usable store
FailedSet(disk, meta, force) ==
    {f \in WorkSet(disk, meta, force) : index_file_read(disk, f).kind # "ok"}

\* C31: a full refresh on a usable store attempts every file of its work
\* set whatever failed before: each file whose ingest fails has exactly one
\* entry in errors and counts in no counter, each file whose ingest succeeds
\* has its new rows and counts in files_processed, and the sweep has run:
\* the rows of every path that was not scanned are gone and counted.
C31_FailuresDoNotAbortRefresh ==
    [][ (FullRefreshStep /\ TablesUsable(dbfile)) =>
        LET work == WorkSet(fs, file_metadata, last'.force)
            failed == FailedSet(fs, file_metadata, last'.force)
            gone == MetadataPaths(file_metadata) \ Range(scan_directory(fs))
            r == last'.result
        IN /\ Len(r.errors) = Cardinality(failed)
           /\ \A f \in failed : ReportedFailed(last', f)
           /\ r.files_processed = Cardinality(work \ failed)
           /\ r.files_added + r.files_updated = Cardinality(work \ failed)
           /\ \A f \in work \ failed :
                 IngestSucceeded(file_metadata', now', f)
           /\ r.files_removed = Cardinality(gone)
           /\ \A p \in gone : /\ RowsOf(file_metadata', p) = {}
                              /\ ~HasDocument(documents', p)
      ]_vars

\* a full refresh has failed on the first file of the walk, has ingested
\* the second one and has swept the rows of a path outside the scan
C31_Witness ==
    /\ IsFullRefresh(last)
    /\ ReportedFailed(last, FileA)
    /\ IngestSucceeded(file_metadata, now, FileB)
    /\ last.result.files_processed = 1
    /\ last.result.files_removed = 1
    /\ Len(last.result.errors) = 1

----------------------------------------------------------------------------
(* C32 *)

\* C32: a single-file refresh runs no removal pass: it returns
\* files_removed = 0 and the documents and file_metadata rows of every path
\* other than the requested one are after the call what they were before
\* it, also the rows of a file that is no longer on disk.
C32_SingleRefreshRemovesNothing ==
    [][ SingleRefreshStep =>
            /\ last'.result.files_removed = 0
            /\ \A p \in Files :
                  p # Resolved(last'.specific_file) =>
                      /\ documents'[p] = documents[p]
                      /\ RowsOf(file_metadata', p) = RowsOf(file_metadata, p)
      ]_vars

\* a single-file refresh has ingested FileB while the rows of FileA, which
\* has been deleted from disk, are still in the store
C32_Witness ==
    /\ last.op = "refresh" /\ Truthy(last.specific_file)
    /\ IngestSucceeded(file_metadata, now, FileB)
    /\ fs[FileA] = NoFile
    /\ HasDocument(documents, FileA)
    /\ RowsOf(file_metadata, FileA) # {}

----------------------------------------------------------------------------
(* C33 *)

\* the refresh of p is a full refresh in progress
FullInProgress(q) == q.pc # "idle" /\ ~Truthy(q.specific_file)

\* C33: the steps of one full refresh are ordered, whatever the other
\* caller does in between: the scan and the snapshot of the known paths are
\* taken before the first ingest and never again, the ingests go through
\* the work set one file after the other, each touching the rows of its own
\* file only, and the sweep starts only when the last file of the work set
\* has been ingested (or the work set is empty).
C33_RefreshStepsOrdered ==
    [][ \A p \in Procs :
          LET q == procs[p]
              n == procs'[p]
          IN (FullInProgress(n) /\ n # q) =>
               /\ n.pc = "snapshot" => q.pc = "idle"
               /\ q.pc # "idle" =>
                     /\ n.all_files = q.all_files
                     /\ n.files_to_process = q.files_to_process
               /\ (n.pc = "index" /\ q.pc # "index") =>
                     /\ q.pc = "snapshot"
                     /\ n.i = 1
               /\ n.existing_files # q.existing_files => q.pc = "snapshot"
               /\ q.pc = "index" =>
                     /\ n.i = q.i + 1
                     /\ q.i \in 1..Len(q.files_to_process)
                     /\ \A f \in Files \ {q.files_to_process[q.i]} :
                           /\ documents'[f] = documents[f]
                           /\ RowsOf(file_metadata', f) = RowsOf(file_metadata, f)
               /\ n.pc = "sweep" =>
                     \/ q.pc = "snapshot" /\ q.files_to_process = <<>>
                     \/ q.pc = "index" /\ q.i = Len(q.files_to_process)
               /\ n.pc = "return" => q.pc = "sweep"
      ]_vars

\* the sweep of a full refresh is about to start after the two ingests of
\* its work set, while the other caller is in the middle of its own refresh
C33_Witness ==
    \E p \in Procs :
        /\ procs[p].pc = "sweep" /\ ~Truthy(procs[p].specific_file)
        /\ Len(procs[p].files_to_process) = 2
        /\ procs[p].i = 3
        /\ \E o \in Procs \ {p} : procs[o].pc = "index"

----------------------------------------------------------------------------
(* C34 *)

\* task t is in the loop of periodic_scan, at its sleep
Sleeping(t) == t <= Len(server.tasks) /\ server.tasks[t] = "sleeping"

\* a turn of the loop of task t has just run: its sleep has ended and its
\* refresh ran
PeriodicRefresh(t) ==
    server.op = "periodic_scan" /\ server.scanner = t /\ server.accessed

\* C34: a turn of the loop of a scanner task leaves the task in its loop,
\* at the next sleep, whether the refresh returned a result, reported
\* errors or raised; and a task that stays in the loop, not cancelled, runs
\* its periodic refresh infinitely often.
C34_ScannerLoopsForever ==
    /\ [][ \A t \in 1..Len(server.tasks) :
              (server.tasks[t] = "sleeping" /\ server'.op = "periodic_scan")
                  => server'.tasks[t] = "sleeping" ]_vars
    /\ \A t \in 1..MaxTasks : []<>(PeriodicRefresh(t) \/ ~Sleeping(t))

\* a refresh of the loop has raised and the task sleeps again
C34_Witness ==
    /\ PeriodicRefresh(1)
    /\ server.out = periodic_scan_turn("raises")
    /\ Sleeping(1)

----------------------------------------------------------------------------
(* C35 *)

\* a tool has just been served by its component
Served ==
    /\ server.op \in Tools
    /\ server.out.raised = None
    /\ server.out.value # NotInitialized

\* C35: no periodic refresh runs and no tool is served by a component
\* before an initial refresh has run to its end; the initial refresh finds
\* the scanner task created and not yet run; and each periodic refresh is
\* the step of a task that was in its sleep.
C35_InitialScanFirst ==
    /\ [](\A t \in 1..MaxTasks : PeriodicRefresh(t) => server.initial_scan.done)
    /\ [](Served => server.initial_scan.done)
    /\ [](server.initial_scan.done => server.initial_scan.task = "scheduled")
    /\ [][ server'.op = "periodic_scan" =>
              server.tasks[server'.scanner] = "sleeping" ]_vars

\* the first call of a tool has initialized the server and has been served,
\* and the scanner task has not run yet
C35_Witness ==
    /\ Served
    /\ server.initial_scan.done
    /\ server.tasks = <<"scheduled">>

\* a periodic refresh has run after the initial one
C35_WitnessPeriodic ==
    /\ PeriodicRefresh(1)
    /\ server.initial_scan.done

----------------------------------------------------------------------------
(* C36 *)

\* the globals that initialize_server assigns
Initialization(srv) ==
    <<srv.config, srv.db, srv.indexer, srv.search_engine, srv.tasks,
      srv.background_task, srv.initial_scan>>

\* C36: once the guard of a tool has initialized the server, the server
\* stays initialized and no call of a tool runs the initialization again:
\* no store is constructed, no initial refresh runs, no task is created. A
\* call of a tool whose guard fails raises, creates no task and leaves the
\* server uninitialized; and a call of a tool on an uninitialized server
\* (outside test mode) attempts the initialization: it fails, or it leaves
\* the server initialized with one more scanner task and the initial
\* refresh done.
C36_GuardInitializesOnce ==
    [][ /\ server._initialized => server'._initialized
        /\ ToolStep =>
             /\ server._initialized =>
                   Initialization(server') = Initialization(server)
             /\ server'.out.raised # None =>
                   /\ ~server'._initialized
                   /\ server'.tasks = server.tasks
                   /\ server'.background_task = server.background_task
             /\ (~server._initialized /\ ~server._test_mode) =>
                   \/ server'.out.raised # None
                   \/ /\ server'._initialized
                      /\ server'.initial_scan.done
                      /\ server'.tasks = Append(server.tasks, "scheduled")
                      /\ server'.background_task = Len(server'.tasks)
      ]_vars

\* the guard of a tool has failed after it had loaded the configuration:
\* the call has raised, there is no task, the server is not initialized
C36_Witness ==
    /\ server.op \in Tools
    /\ server.out.raised # None
    /\ server.config
    /\ ~server._initialized
    /\ server.tasks = <<>>

\* a tool is served on the initialized server while the one scanner task
\* is in its loop
C36_WitnessOnce ==
    /\ Served
    /\ server._initialized
    /\ server.tasks = <<"sleeping">>

----------------------------------------------------------------------------
(* C37 *)

\* C37: a connection is open only inside the scope that acquired it: when
\* an operation is outside its scope (before it, or after it has returned
\* or raised) no connection is open, inside it the one connection of the
\* scope is open, and the step that leaves the scope closes it on every
\* exit path: the end of the block, a return, a store error, another
\* exception, an interrupt, a connect that failed.
C37_ConnectionsReleased ==
    /\ [](conns.pc = "idle" => conns.open = 0)
    /\ [](conns.pc # "idle" => conns.open = IF conns.conn THEN 1 ELSE 0)
    /\ [][ (conns.pc = "finally" /\ conns'.pc = "idle") =>
              (conns'.open = 0 /\ conns'.ended # None) ]_vars

\* a scope of get_connection has been left by an exception raised while
\* the connection was held
C37_Witness ==
    /\ conns.pc = "idle"
    /\ conns.ended = "raised" /\ conns.exc = "IndexCorruptionError"
    /\ conns.conn
    /\ conns.open = 0

\* a return from inside the scope has closed the connection
C37_WitnessReturn ==
    /\ conns.pc = "idle" /\ conns.op = "check_integrity"
    /\ conns.ended = "returned" /\ conns.conn /\ conns.open = 0

----------------------------------------------------------------------------
(* C38 *)

\* the normalization of a query: unchanged when it starts and ends with a
\* double quote, wrapped in double quotes with its double quotes doubled
\* when it holds one of the special characters or operators, unchanged
\* otherwise
Normalization(s) ==
    IF StartsWith(s, <<QUOTE>>) /\ EndsWith(s, <<QUOTE>>) THEN s
    ELSE IF ~FreeOfSyntax(s)
    THEN <<QUOTE>> \o Replace(s, QUOTE, <<QUOTE, QUOTE>>) \o <<QUOTE>>
    ELSE s

\* C38: for every query that is not empty after stripping, the string sent
\* to the store is the normalization of the query with its surrounding
\* whitespace stripped.
C38_SentIsNormalizedStrippedQuery ==
    StatementRan =>
        searched.out.escaped = Normalization(strip(searched.query))

----------------------------------------------------------------------------
(* C39 *)

\* the entry of errors for the store error e that aborted a refresh
AbortEntry(e) == Msg(get_connection(e).text, NoneInput)

\* C39: refresh_index never raises, it returns a RefreshResult for every
\* specific_path, force flag, state of the file system and of the store;
\* when a store error aborts it (at the lookup of the path, at the change
\* detection, at the snapshot of the known paths or at the sweep) the
\* result has success = false, the text of the exception as the last entry
\* of errors, and the counters as they stood at the abort: the files that
\* were ingested before the sweep failed are counted, files_removed is 0,
\* and an abort before the first ingest leaves all counters at zero and the
\* store unchanged.
C39_RefreshNeverRaises ==
    [][ RefreshStep =>
        LET r == last'.result
            work == WorkSet(fs, file_metadata, last'.force)
            failed == FailedSet(fs, file_metadata, last'.force)
        IN /\ last'.raised = NoRaise
           /\ last'.at = "sweep" =>
                 /\ ~r.success
                 /\ r.errors[Len(r.errors)] = AbortEntry(last'.fault)
                 /\ Len(r.errors) = Cardinality(failed) + 1
                 /\ r.files_processed = Cardinality(work \ failed)
                 /\ r.files_added + r.files_updated = r.files_processed
                 /\ r.files_removed = 0
                 /\ \A f \in work \ failed :
                       IngestSucceeded(file_metadata', now', f)
           /\ last'.at \in RefreshStatements \ {"sweep"} =>
                 /\ r = _create_result(FALSE, 0, 0, 0, 0,
                                       <<AbortEntry(last'.fault)>>)
                 /\ UNCHANGED <<documents, file_metadata>>
           /\ (last'.at = None /\ ~TablesUsable(dbfile)) =>
                 /\ r = _create_result(FALSE, 0, 0, 0, 0,
                                       <<get_connection_error(dbfile)>>)
                 /\ UNCHANGED <<documents, file_metadata>>
      ]_vars

\* a store error at the sweep has aborted a full refresh after one ingest
\* had failed and one had succeeded
C39_Witness ==
    /\ last.op = "refresh" /\ last.at = "sweep"
    /\ ~last.result.success
    /\ last.result.files_processed = 1
    /\ Len(last.result.errors) = 2

\* a full refresh has found the database file damaged
C39_WitnessDamaged ==
    /\ IsFullRefresh(last) /\ last.at = None /\ last.db = "malformed"
    /\ ~last.result.success
    /\ Len(last.result.errors) = 1

\* a store error at the lookup of the path has aborted a single-file refresh
C39_WitnessLookup ==
    /\ last.op = "refresh" /\ last.at = "lookup"
    /\ Truthy(last.specific_file)
    /\ ~last.result.success

----------------------------------------------------------------------------
(* C40 *)

\* the refresh that has just returned has written the document of the path
WroteDocument(f) ==
    /\ IngestSucceeded(file_metadata', now', f)
    /\ HasDocument(documents', f)

\* C40: every documents row belongs to a file that passed the scan filters
\* when it was ingested (extension included when the include list is not
\* empty, extension not excluded, size within max_file_size_mb, not under
\* the index directory), whether a full refresh or a single-file refresh
\* ingested it.
C40_RowsPassedScanFilters ==
    [][ RefreshStep => \A f \in Files :
            WroteDocument(f) => ScanFilter(fs, f)
      ]_vars

\* the part of C40 about full refreshes
C40_FullRefreshRowsPassedScanFilters ==
    [][ FullRefreshStep => \A f \in Files :
            WroteDocument(f) => ScanFilter(fs, f)
      ]_vars

\* a single-file refresh has ingested a text file that is larger than
\* max_file_size_mb
C40_OversizedIngested ==
    /\ last.op = "refresh" /\ Truthy(last.specific_file)
    /\ last.result.success
    /\ \E f \in SourceFiles :
          /\ fs[f] # NoFile
          /\ fs[f].size > max_file_size_mb
          /\ IngestSucceeded(file_metadata, now, f)
          /\ HasDocument(documents, f)

----------------------------------------------------------------------------
(* C4 *)

\* C4: for every path there is at most one documents row and at most one
\* file_metadata row in every reachable state, also when the refresh of the
\* tool and the periodic refresh interleave their reads and transactions.
C4_AtMostOneRowPerPath ==
    \A p \in Files :
        /\ Len(documents[p]) <= 1
        /\ Cardinality(RowsOf(file_metadata, p)) <= 1

\* both refreshes have run their ingest loop over FileA and stand before
\* their sweep at the same time
C4_Witness ==
    /\ \A p \in Procs :
          /\ procs[p].pc = "sweep"
          /\ procs[p].files_processed >= 1
          /\ procs[p].files_to_process[1] = FileA
    /\ Len(documents[FileA]) = 1

====
